---- MODULE Spec2Model ----
(***************************************************************************)
(* EmpowerHub backend (src/app.py): the scoring and recommendation helpers *)
(* and the request handlers that use them, over the record store.          *)
(*                                                                         *)
(* Numbers.  The code computes with Python floats; the model computes with *)
(* exact fixed-point integers:                                             *)
(*   - a confidence c is held as c * ConfDen     (0.7 is 70),              *)
(*   - a mood score m is held as m * ConfDen     (89 is 8900),             *)
(*   - a wellness sub-score s is held as s * ScoreDen (100 is 12000),      *)
(*   - an average score a is held as a * AvgDen  (79.99 is 7999).          *)
(* Text.  A Python str is a sequence of one-character strings, so that     *)
(* lower(), `in`, split(',') and strip() are computed, not assumed.        *)
(***************************************************************************)
EXTENDS Integers, Sequences, FiniteSets, TLC

VARIABLES
    health_tracking,            \* table health_tracking: rows in insertion order
    meal_plans,                 \* table meal_plans
    food_waste_reduction,       \* table food_waste_reduction
    mental_health_assessments,  \* table mental_health_assessments
    learning_activities,        \* table learning_activities
    qa_history,                 \* table qa_history
    clock,                      \* CURRENT_TIMESTAMP of the latest insert, in seconds
    request,                    \* the request being answered (its inputs)
    response,                   \* the response returned for it
    external,                   \* the external providers called while answering it
    db_log,                     \* the statements it sent to the store
    served,                     \* per user and table, the inserts answered with 200
    dashboard,                  \* a user_dashboard request under way beside it
    call                        \* a direct call of a helper: arguments and result

tables == << health_tracking, meal_plans, food_waste_reduction,
             mental_health_assessments, learning_activities, qa_history >>

vars == << tables, clock, request, response, external, db_log, served,
           dashboard, call >>

\* ------------------------------------------------------------------ bounds

\* Longest mood text, in fragments of TextFragments.
MaxWords == 3

\* Largest confidence given to calculate_mood_score, in 1/ConfDen.
MaxConfidence == 300

\* Most copies of one kind of ingredient in an ingredient list.
MaxCopies == 3

\* Longest list of expiring items.
MaxItems == 10

\* Largest activity count given to determine_education_level.
MaxActivityCount == 25

\* Largest average score given to determine_health_status, in 1/AvgDen.
MaxAvgScore == 10100

\* How far below 0 and above 100 the overall score given to
\* generate_wellness_recommendations ranges.
ScoreSlack == 5

\* Largest sleep_hours and water_glasses of a wellness request.
MaxSleepHours == 10

MaxWaterGlasses == 10

\* Most rows the store holds in the specification of successive requests.
MaxRows == 2

\* Most rows of one table in the stores a dashboard is taken of.
MaxRecent == 7

\* Most rows of score 80 in the histories given to calculate_health_progress.
MaxHistory == 250

\* ----------------------------------------------------------- arithmetic

Min(a, b) == IF a <= b THEN a ELSE b

Max(a, b) == IF a >= b THEN a ELSE b

\* The elements of a sequence.
Range(seq) == { seq[i] : i \in 1..Len(seq) }

\* Python round(n / d) for d > 0: to the nearest integer, a tie to the even one.
RoundHalfEven(n, d) ==
    LET q == n \div d
        r == n % d
    IN  IF 2 * r < d THEN q
        ELSE IF 2 * r > d THEN q + 1
        ELSE IF q % 2 = 0 THEN q ELSE q + 1

\* ------------------------------------------------------------------ text

UpperCase ==
    << "A","B","C","D","E","F","G","H","I","J","K","L","M",
       "N","O","P","Q","R","S","T","U","V","W","X","Y","Z" >>

LowerCase ==
    << "a","b","c","d","e","f","g","h","i","j","k","l","m",
       "n","o","p","q","r","s","t","u","v","w","x","y","z" >>

\* str.lower() of one character.
LowerChar(c) ==
    IF \E i \in 1..26 : UpperCase[i] = c
    THEN LowerCase[CHOOSE i \in 1..26 : UpperCase[i] = c]
    ELSE c

\* str.lower()
Lower(s) == [i \in 1..Len(s) |-> LowerChar(s[i])]

\* Python `w in s` for strings: w occurs in s as a substring.
Contains(s, w) ==
    \E i \in 1..(Len(s) - Len(w) + 1) : SubSeq(s, i, i + Len(w) - 1) = w

\* The concatenation of a sequence of strings.
RECURSIVE Concat(_)
Concat(ss) == IF ss = << >> THEN << >> ELSE Head(ss) \o Concat(Tail(ss))

\* All sequences over S of length at most n.
SeqsUpTo(S, n) == UNION { [1..k -> S] : k \in 0..n }

\* str.split(sep) for a one-character separator: always at least one piece.
RECURSIVE Split(_, _)
Split(s, sep) ==
    IF \A i \in 1..Len(s) : s[i] # sep
    THEN << s >>
    ELSE LET i == CHOOSE j \in 1..Len(s) :
                      s[j] = sep /\ \A k \in 1..(j - 1) : s[k] # sep
         IN  << SubSeq(s, 1, i - 1) >> \o Split(SubSeq(s, i + 1, Len(s)), sep)

Whitespace == { " ", "\t", "\n", "\r" }

RECURSIVE LStrip(_)
LStrip(s) == IF s # << >> /\ Head(s) \in Whitespace THEN LStrip(Tail(s)) ELSE s

RECURSIVE RStrip(_)
RStrip(s) ==
    IF s # << >> /\ s[Len(s)] \in Whitespace
    THEN RStrip(SubSeq(s, 1, Len(s) - 1))
    ELSE s

\* str.strip()
Strip(s) == RStrip(LStrip(s))

\* [x.strip() for x in text.split(',')]
SplitList(text) ==
    LET pieces == Split(text, ",")
    IN  [i \in 1..Len(pieces) |-> Strip(pieces[i])]

\* ------------------------------------------------- analyze_sentiment

ConfDen == 100

positive_words ==
    << <<"h","a","p","p","y">>,
       <<"g","o","o","d">>,
       <<"g","r","e","a","t">>,
       <<"e","x","c","i","t","e","d">>,
       <<"j","o","y">>,
       <<"l","o","v","e">>,
       <<"n","i","c","e">>,
       <<"p","o","s","i","t","i","v","e">>,
       <<"a","w","e","s","o","m","e">>,
       <<"f","a","n","t","a","s","t","i","c">> >>

negative_words ==
    << <<"s","a","d">>,
       <<"b","a","d">>,
       <<"a","n","g","r","y">>,
       <<"h","a","t","e">>,
       <<"u","p","s","e","t">>,
       <<"s","t","r","e","s","s">>,
       <<"a","n","x","i","o","u","s">>,
       <<"d","e","p","r","e","s","s">>,
       <<"t","i","r","e","d">>,
       <<"w","o","r","r","i","e","d">> >>

\* Variant of KeywordHits that counts every occurrence of a word
\* (sum(text_lower.count(word) for word in words)).
KeywordHits_occurrences(words, text_lower) ==
    Cardinality({ p \in (1..Len(words)) \X (1..Len(text_lower)) :
                    /\ p[2] + Len(words[p[1]]) - 1 <= Len(text_lower)
                    /\ SubSeq(text_lower, p[2], p[2] + Len(words[p[1]]) - 1)
                          = words[p[1]] })

\* sum(1 for word in words if word in text_lower)
KeywordHits(words, text_lower) ==
    Cardinality({ i \in 1..Len(words) : Contains(text_lower, words[i]) })

positive_count(text) == KeywordHits(positive_words, Lower(text))

negative_count(text) == KeywordHits(negative_words, Lower(text))

\* Variant of analyze_sentiment that resolves a tie as POSITIVE (>= for >).
analyze_sentiment_tie_positive(text) ==
    IF positive_count(text) >= negative_count(text)
    THEN [sentiment |-> "POSITIVE", confidence |-> 70]
    ELSE [sentiment |-> "NEGATIVE", confidence |-> 70]

analyze_sentiment(text) ==
    IF positive_count(text) > negative_count(text)
    THEN [sentiment |-> "POSITIVE", confidence |-> 70]
    ELSE IF negative_count(text) > positive_count(text)
    THEN [sentiment |-> "NEGATIVE", confidence |-> 70]
    ELSE [sentiment |-> "NEUTRAL", confidence |-> 60]

\* Mood texts: up to MaxWords fragments, concatenated without a separator, so
\* that a keyword can also arise across two fragments ("ba" + "d").
TextFragments ==
    { <<"H","a","p","p","y">>, <<"g","o","o","d">>, <<"j","o","y">>,
      <<"S","A","D">>, <<"b","a","d">>, <<"r","e","t","i","r","e","d">>,
      <<" ">>, <<"g","l","o","v","e">>, <<"b","a">>, <<"d">> }

Texts == { Concat(ws) : ws \in SeqsUpTo(TextFragments, MaxWords) }

\* ---------------------------------------------- calculate_mood_score

base_scores(sentiment) ==
    CASE sentiment = "POSITIVE" -> 85
      [] sentiment = "NEUTRAL"  -> 60
      [] sentiment = "NEGATIVE" -> 35
      [] OTHER                  -> 60

\* Variant of calculate_mood_score whose adjustment is (confidence - 0.5) * 100.
calculate_mood_score_wide_adjustment(sentiment, confidence) ==
    Max(10 * ConfDen,
        Min(100 * ConfDen,
            base_scores(sentiment) * ConfDen + (confidence - ConfDen \div 2) * 100))

\* Variant of calculate_mood_score without the lower clamp max(10, .).
calculate_mood_score_no_floor(sentiment, confidence) ==
    Min(100 * ConfDen,
        base_scores(sentiment) * ConfDen + (confidence - ConfDen \div 2) * 20)

\* confidence in 1/ConfDen, the result in 1/ConfDen.
calculate_mood_score(sentiment, confidence) ==
    LET base_score == base_scores(sentiment)
        confidence_adjustment == (confidence - ConfDen \div 2) * 20
    IN  Max(10 * ConfDen,
            Min(100 * ConfDen, base_score * ConfDen + confidence_adjustment))

Sentiments == { "POSITIVE", "NEGATIVE", "NEUTRAL", "MIXED", "positive", "" }

Confidences == (ConfDen - MaxConfidence)..MaxConfidence

\* --------------------------- generate_mental_health_recommendations

recommendations_POSITIVE ==
    << "Keep up the positive mindset with regular exercise and social connections",
       "Practice gratitude and maintain your current healthy habits",
       "Consider sharing your positivity with others who might need support" >>

recommendations_NEGATIVE ==
    << "Consider talking to a trusted friend, family member, or mental health professional",
       "Try relaxation techniques like deep breathing or meditation",
       "Engage in physical activity, even a short walk can help improve mood",
       "Ensure you're getting adequate sleep and nutrition" >>

recommendations_NEUTRAL ==
    << "Engage in activities that bring you joy and fulfillment",
       "Connect with friends and family for social support",
       "Try mindfulness or meditation practices",
       "Consider exploring new hobbies or interests" >>

\* Variant of generate_mental_health_recommendations whose default for an
\* unknown label is the empty list (recommendations.get(sentiment, [])).
generate_mental_health_recommendations_no_default(sentiment, confidence) ==
    CASE sentiment = "POSITIVE" -> recommendations_POSITIVE
      [] sentiment = "NEGATIVE" -> recommendations_NEGATIVE
      [] sentiment = "NEUTRAL"  -> recommendations_NEUTRAL
      [] OTHER                  -> << >>

\* Variant of generate_mental_health_recommendations whose table is built
\* once and shared by all calls: a call returns the list of the label as the
\* latest stored analysis of that label left it.
generate_mental_health_recommendations_shared(sentiment, confidence) ==
    LET key == IF sentiment \in { "POSITIVE", "NEGATIVE" } THEN sentiment
               ELSE "NEUTRAL"
        earlier == SelectSeq(mental_health_assessments,
                             LAMBDA r : r.sentiment = key)
    IN  IF earlier # << >> THEN earlier[Len(earlier)].recommendations
        ELSE CASE key = "POSITIVE" -> recommendations_POSITIVE
               [] key = "NEGATIVE" -> recommendations_NEGATIVE
               [] OTHER            -> recommendations_NEUTRAL

\* The table is built anew by every call; the list returned is that call's own.
generate_mental_health_recommendations(sentiment, confidence) ==
    CASE sentiment = "POSITIVE" -> recommendations_POSITIVE
      [] sentiment = "NEGATIVE" -> recommendations_NEGATIVE
      [] sentiment = "NEUTRAL"  -> recommendations_NEUTRAL
      [] OTHER                  -> recommendations_NEUTRAL

\* ------------------------------------ generate_wellness_recommendations

\* Denominator of the sub-scores: h / 8 * 100 and m / 30 * 100 are exact in 1/120.
ScoreDen == 120

SleepTip == "Aim for 7-9 hours of quality sleep each night"

ExerciseTip == "Try to get at least 30 minutes of physical activity daily"

WaterTip == "Increase water intake to 8 glasses per day"

ExcellentRemark == "Great job maintaining excellent wellness habits!"

RightTrackRemark ==
    "You're on the right track - small improvements can make a big difference"

GradualRemark == "Focus on gradual improvements in sleep, exercise, and hydration"

\* Variant of generate_wellness_recommendations whose tips use <= 70 for < 70.
generate_wellness_recommendations_le(wellness_score, wellness_data) ==
    LET r1 == IF wellness_data.sleep_score <= 70 * ScoreDen
              THEN << SleepTip >> ELSE << >>
        r2 == IF wellness_data.exercise_score <= 70 * ScoreDen
              THEN Append(r1, ExerciseTip) ELSE r1
        r3 == IF wellness_data.water_score <= 70 * ScoreDen
              THEN Append(r2, WaterTip) ELSE r2
    IN  IF wellness_score >= 80 THEN Append(r3, ExcellentRemark)
        ELSE IF wellness_score >= 60 THEN Append(r3, RightTrackRemark)
        ELSE Append(r3, GradualRemark)

\* wellness_score a plain number; the sub-scores of wellness_data in 1/ScoreDen.
generate_wellness_recommendations(wellness_score, wellness_data) ==
    LET r1 == IF wellness_data.sleep_score < 70 * ScoreDen
              THEN << SleepTip >> ELSE << >>
        r2 == IF wellness_data.exercise_score < 70 * ScoreDen
              THEN Append(r1, ExerciseTip) ELSE r1
        r3 == IF wellness_data.water_score < 70 * ScoreDen
              THEN Append(r2, WaterTip) ELSE r2
    IN  IF wellness_score >= 80 THEN Append(r3, ExcellentRemark)
        ELSE IF wellness_score >= 60 THEN Append(r3, RightTrackRemark)
        ELSE Append(r3, GradualRemark)

SubScores ==
    { 0 - 100 * ScoreDen, 0, 70 * ScoreDen - 1, 70 * ScoreDen, 100 * ScoreDen }

OverallScores == (0 - ScoreSlack)..(100 + ScoreSlack)

\* ------------------------------------------- calculate_nutrition_score

healthy_ingredients ==
    << <<"v","e","g","e","t","a","b","l","e","s">>,
       <<"f","r","u","i","t","s">>,
       <<"w","h","o","l","e"," ","g","r","a","i","n","s">>,
       <<"l","e","a","n"," ","p","r","o","t","e","i","n">>,
       <<"l","e","g","u","m","e","s">> >>

\* any(healthy in ingredient.lower() for healthy in healthy_ingredients)
IsHealthy(ingredient) ==
    \E k \in 1..Len(healthy_ingredients) :
        Contains(Lower(ingredient), healthy_ingredients[k])

\* Variant of calculate_nutrition_score whose bonus counts every keyword an
\* ingredient contains (a sum over the pairs instead of any()).
calculate_nutrition_score_per_keyword(ingredients, dietary_restrictions) ==
    LET base_score == Min(Len(ingredients) * 10, 100)
        bonus == 5 * Cardinality(
                     { << i, k >> \in (1..Len(ingredients))
                                      \X (1..Len(healthy_ingredients)) :
                         Contains(Lower(ingredients[i]), healthy_ingredients[k]) })
    IN  Min(100, base_score + bonus)

calculate_nutrition_score(ingredients, dietary_restrictions) ==
    LET base_score == Min(Len(ingredients) * 10, 100)
        bonus == 5 * Cardinality({ i \in 1..Len(ingredients) :
                                     IsHealthy(ingredients[i]) })
    IN  Min(100, base_score + bonus)

\* ------------------------------------------------- estimate_meal_cost

avg_cost_per_ingredient == 50

estimate_meal_cost(ingredients) == Len(ingredients) * avg_cost_per_ingredient

\* --------------------------------------- calculate_waste_impact_score

\* Variant of calculate_waste_impact_score without the cap min(100, .).
calculate_waste_impact_score_no_cap(items) == Len(items) * 15

calculate_waste_impact_score(items) == Min(100, Len(items) * 15)

\* ------------------------------------------ determine_education_level

\* Variant of determine_education_level without the case of no activity.
determine_education_level_no_beginner(activity_count, avg_progress) ==
    IF activity_count < 5 THEN "Explorer"
    ELSE IF activity_count < 10 THEN "Learner"
    ELSE IF activity_count < 20 THEN "Scholar"
    ELSE "Expert"

\* Variant of determine_education_level with <= for < at the thresholds.
determine_education_level_le(activity_count, avg_progress) ==
    IF activity_count = 0 THEN "Beginner"
    ELSE IF activity_count <= 5 THEN "Explorer"
    ELSE IF activity_count <= 10 THEN "Learner"
    ELSE IF activity_count <= 20 THEN "Scholar"
    ELSE "Expert"

determine_education_level(activity_count, avg_progress) ==
    IF activity_count = 0 THEN "Beginner"
    ELSE IF activity_count < 5 THEN "Explorer"
    ELSE IF activity_count < 10 THEN "Learner"
    ELSE IF activity_count < 20 THEN "Scholar"
    ELSE "Expert"

\* -------------------------------------------- determine_health_status

AvgDen == 100

\* Variant of determine_health_status with > for >= at the thresholds.
determine_health_status_gt(avg_score) ==
    IF avg_score > 80 * AvgDen THEN "Excellent"
    ELSE IF avg_score > 60 * AvgDen THEN "Good"
    ELSE IF avg_score > 40 * AvgDen THEN "Fair"
    ELSE "Needs Improvement"

\* avg_score in 1/AvgDen.
determine_health_status(avg_score) ==
    IF avg_score >= 80 * AvgDen THEN "Excellent"
    ELSE IF avg_score >= 60 * AvgDen THEN "Good"
    ELSE IF avg_score >= 40 * AvgDen THEN "Fair"
    ELSE "Needs Improvement"

\* ------------------------------------- track_wellness: the computation

\* Variant of sleep_score without the cap min(., 100).
sleep_score_uncapped(sleep_hours) == ((sleep_hours * ScoreDen) \div 8) * 100

\* min((sleep_hours / 8) * 100, 100), in 1/ScoreDen
sleep_score(sleep_hours) ==
    Min(((sleep_hours * ScoreDen) \div 8) * 100, 100 * ScoreDen)

\* min((exercise_minutes / 30) * 100, 100), in 1/ScoreDen
exercise_score(exercise_minutes) ==
    Min(((exercise_minutes * ScoreDen) \div 30) * 100, 100 * ScoreDen)

\* min((water_glasses / 8) * 100, 100), in 1/ScoreDen
water_score(water_glasses) ==
    Min(((water_glasses * ScoreDen) \div 8) * 100, 100 * ScoreDen)

\* round((sleep_score + exercise_score + water_score) / 3), a plain integer
wellness_score(sleep_hours, exercise_minutes, water_glasses) ==
    RoundHalfEven(sleep_score(sleep_hours) + exercise_score(exercise_minutes)
                    + water_score(water_glasses),
                  3 * ScoreDen)

wellness_data(sleep_hours, exercise_minutes, water_glasses) ==
    [ sleep_hours      |-> sleep_hours,
      exercise_minutes |-> exercise_minutes,
      water_glasses    |-> water_glasses,
      sleep_score      |-> sleep_score(sleep_hours),
      exercise_score   |-> exercise_score(exercise_minutes),
      water_score      |-> water_score(water_glasses),
      overall_score    |-> wellness_score(sleep_hours, exercise_minutes,
                                          water_glasses) ]

\* ------------------------------------------------------- the store

NoCall == [fn |-> "none"]

NoRequest == [op |-> "none"]

NoResponse == [op |-> "none"]

NoDashboard == [pc |-> "idle"]

Users == { 1, 2 }

\* The tables the handlers insert into.
TableNames ==
    { "learning_activities", "qa_history", "health_tracking",
      "mental_health_assessments", "meal_plans", "food_waste_reduction" }

NoneServed == [u \in Users |-> [t \in TableNames |-> 0]]

StoreInit ==
    /\ health_tracking = << >>
    /\ meal_plans = << >>
    /\ food_waste_reduction = << >>
    /\ mental_health_assessments = << >>
    /\ learning_activities = << >>
    /\ qa_history = << >>
    /\ clock = 0
    /\ request = NoRequest
    /\ response = NoResponse
    /\ external = << >>
    /\ db_log = << >>
    /\ served = NoneServed
    /\ dashboard = NoDashboard

StoreUnchanged ==
    UNCHANGED << tables, clock, request, response, external, db_log, served,
                 dashboard >>

\* ------------------------------------------- direct calls of the helpers

\* n copies of x.
Repeat(x, n) == [i \in 1..n |-> x]

IngredientKinds ==
    << <<"V","e","g","e","t","a","b","l","e","s">>,
       <<"c","h","i","c","k","e","n">>,
       <<"F","r","u","i","t","s"," ","a","n","d"," ",
         "v","e","g","e","t","a","b","l","e","s">>,
       <<"w","h","o","l","e"," ","g","r","a","i","n","s">> >>

IngredientLists ==
    { Repeat(IngredientKinds[1], a) \o Repeat(IngredientKinds[2], b)
        \o Repeat(IngredientKinds[3], c) \o Repeat(IngredientKinds[4], d) :
      a \in 0..MaxCopies, b \in 0..MaxCopies,
      c \in 0..MaxCopies, d \in 0..MaxCopies }

DietaryRestrictions == { "none", "vegetarian", "gluten-free" }

ItemKinds ==
    << <<"m","i","l","k">>, <<"b","r","e","a","d">>, <<"e","g","g","s">> >>

ItemLists ==
    { [i \in 1..n |-> ItemKinds[((i + k) % 3) + 1]] :
      n \in 0..MaxItems, k \in 0..2 }

AvgProgresses == { 0, 50, 100 }

AvgScores == (100 * AvgDen - MaxAvgScore)..MaxAvgScore

Calls ==
    { [fn |-> "analyze_sentiment", args |-> [text |-> t]] : t \in Texts }
    \cup
    { [fn |-> "calculate_mood_score",
       args |-> [sentiment |-> s, confidence |-> c]] :
      s \in Sentiments, c \in Confidences }
    \cup
    { [fn |-> "generate_mental_health_recommendations",
       args |-> [sentiment |-> s, confidence |-> c]] :
      s \in Sentiments, c \in { 60, 70 } }
    \cup
    { [fn |-> "generate_wellness_recommendations",
       args |-> [wellness_score |-> w,
                 wellness_data |-> [sleep_score |-> a, exercise_score |-> b,
                                    water_score |-> c]]] :
      w \in OverallScores, a \in SubScores, b \in SubScores, c \in SubScores }
    \cup
    { [fn |-> "calculate_nutrition_score",
       args |-> [ingredients |-> l, dietary_restrictions |-> r]] :
      l \in IngredientLists, r \in DietaryRestrictions }
    \cup
    { [fn |-> "calculate_waste_impact_score", args |-> [items |-> l]] :
      l \in ItemLists }
    \cup
    { [fn |-> "determine_education_level",
       args |-> [activity_count |-> n, avg_progress |-> p]] :
      n \in 0..MaxActivityCount, p \in AvgProgresses }
    \cup
    { [fn |-> "determine_health_status", args |-> [avg_score |-> a]] :
      a \in AvgScores }

Pending(fn) == call.fn = fn /\ "result" \notin DOMAIN call

Returned(fn) == call.fn = fn /\ "result" \in DOMAIN call

Return(result) ==
    /\ call' = [fn |-> call.fn, args |-> call.args, result |-> result]
    /\ StoreUnchanged

CallInit == StoreInit /\ call \in Calls

call_analyze_sentiment ==
    /\ Pending("analyze_sentiment")
    /\ Return(analyze_sentiment(call.args.text))

call_calculate_mood_score ==
    /\ Pending("calculate_mood_score")
    /\ Return(calculate_mood_score(call.args.sentiment, call.args.confidence))

call_generate_mental_health_recommendations ==
    /\ Pending("generate_mental_health_recommendations")
    /\ Return(generate_mental_health_recommendations(call.args.sentiment,
                                                     call.args.confidence))

call_generate_wellness_recommendations ==
    /\ Pending("generate_wellness_recommendations")
    /\ Return(generate_wellness_recommendations(call.args.wellness_score,
                                                call.args.wellness_data))

call_calculate_nutrition_score ==
    /\ Pending("calculate_nutrition_score")
    /\ Return(calculate_nutrition_score(call.args.ingredients,
                                        call.args.dietary_restrictions))

call_calculate_waste_impact_score ==
    /\ Pending("calculate_waste_impact_score")
    /\ Return(calculate_waste_impact_score(call.args.items))

call_determine_education_level ==
    /\ Pending("determine_education_level")
    /\ Return(determine_education_level(call.args.activity_count,
                                        call.args.avg_progress))

call_determine_health_status ==
    /\ Pending("determine_health_status")
    /\ Return(determine_health_status(call.args.avg_score))

CallNext ==
    \/ call_analyze_sentiment
    \/ call_calculate_mood_score
    \/ call_generate_mental_health_recommendations
    \/ call_generate_wellness_recommendations
    \/ call_calculate_nutrition_score
    \/ call_calculate_waste_impact_score
    \/ call_determine_education_level
    \/ call_determine_health_status

SpecCalc == CallInit /\ [][CallNext]_vars

\* ------------------------------------------------ external providers

\* A call of a provider while answering a request, and how it went.
Called(provider, outcome) == [provider |-> provider, outcome |-> outcome]

AdviceOutcomes == { "ok", "bad_status", "error" }

\* What the advice service answers when it answers.
AdviceSlip == "Be kind to yourself."

\* Variant of get_random_advice whose except branch returns no text.
get_random_advice_no_fallback(outcome) ==
    CASE outcome = "ok"         -> AdviceSlip
      [] outcome = "bad_status" -> "Stay positive and take things one day at a time."
      [] OTHER                  -> ""

\* outcome: the service answered 200, answered another status, or the call
\* raised (a timeout, a connection error, an answer without the fields).
get_random_advice(outcome) ==
    CASE outcome = "ok"         -> AdviceSlip
      [] outcome = "bad_status" -> "Stay positive and take things one day at a time."
      [] OTHER                  -> "Remember to practice self-care and mindfulness."

MealOutcomes == { "recipe", "no_recipe", "error" }

\* The three texts get_meal_suggestion can return, by their variable parts.
get_meal_suggestion(ingredient, outcome) ==
    CASE outcome = "recipe"    -> [text |-> "Try making", about |-> ingredient]
      [] outcome = "no_recipe" -> [text |-> "No recipes found with",
                                   about |-> ingredient]
      [] OTHER                 -> [text |-> "You can make various dishes with",
                                   about |-> ingredient]

WikiOutcomes == { "extract", "no_extract", "bad_status", "error" }

\* What Wikipedia's summary holds when it has one.
WikiExtract == "An extract of the page."

get_wikipedia_answer(question, outcome) ==
    CASE outcome = "extract"    -> WikiExtract
      [] outcome = "no_extract" -> "Information not found on Wikipedia"
      [] outcome = "bad_status" -> "Could not retrieve information from Wikipedia"
      [] OTHER -> "This is a demo response about educational content."

\* ---------------------------------------------------- the record store

\* get_db_connection and the statements after it: all succeed, the connection
\* cannot be made (get_db_connection returns None), or execute/commit raises.
DbOutcomes == { "ok", "connect_failed", "execute_failed" }

TotalRows ==
    Len(health_tracking) + Len(meal_plans) + Len(food_waste_reduction)
      + Len(mental_health_assessments) + Len(learning_activities)
      + Len(qa_history)

\* cursor.lastrowid of an insert into a table that only grows
lastrowid(table) == Len(table) + 1

\* Variant of Missing that takes an empty string for a value.
Missing_only_absent(given, value) == ~given

\* `not value` for an optional string field of the request body
Missing(given, value) == ~given \/ value = << >>

Answering(op) == request.op = op /\ response = NoResponse

Error(status, message) ==
    [op |-> request.op, status |-> status, error |-> message]

\* A statement sent to the store and whether it succeeded.
Statement(stmt, table, ok) == [stmt |-> stmt, table |-> table, ok |-> ok]

Connect(ok) == Statement("connect", "", ok)

\* Variant of Persisted that keeps the row of an insert whose commit raised.
Persisted_unless_no_connection(db) == db # "connect_failed"

\* The handlers commit after the insert and answer 200 after the commit: the
\* row is in the table exactly when connect, execute and commit all succeeded.
Persisted(db) == db = "ok"

\* get_db_connection(), cursor.execute(INSERT ...), connection.commit()
InsertLog(db, table) ==
    CASE db = "connect_failed" -> << Connect(FALSE) >>
      [] db = "execute_failed" ->
            << Connect(TRUE), Statement("insert", table, FALSE) >>
      [] OTHER ->
            << Connect(TRUE), Statement("insert", table, TRUE),
               Statement("commit", "", TRUE) >>

\* Variant of Stored in which the insert replaces the user's earlier row of
\* the same topic.
Stored_replace_topic(table, row, tick) ==
    Append(SelectSeq(table, LAMBDA r : ~(r.user_id = row.user_id
                                         /\ r.topic = row.topic)),
           [id |-> lastrowid(table), created_at |-> clock + tick] @@ row)

\* The row as the table holds it: id is AUTO_INCREMENT, created_at defaults to
\* CURRENT_TIMESTAMP, which has advanced by tick seconds since the last insert.
Stored(table, row, tick) ==
    Append(table, [id |-> lastrowid(table), created_at |-> clock + tick] @@ row)

\* The store part of a handler that inserts one row into table t.
Insert(t, row, db, tick) ==
    LET into(name, table) ==
            IF Persisted(db) /\ t = name THEN Stored(table, row, tick) ELSE table
    IN  /\ ~Persisted(db) => tick = 0
        /\ db_log' = InsertLog(db, t)
        /\ health_tracking' = into("health_tracking", health_tracking)
        /\ meal_plans' = into("meal_plans", meal_plans)
        /\ food_waste_reduction' =
              into("food_waste_reduction", food_waste_reduction)
        /\ mental_health_assessments' =
              into("mental_health_assessments", mental_health_assessments)
        /\ learning_activities' =
              into("learning_activities", learning_activities)
        /\ qa_history' = into("qa_history", qa_history)
        /\ clock' = clock + tick
        /\ served' = IF Persisted(db)
                     THEN [served EXCEPT ![request.user][t] = @ + 1]
                     ELSE served

\* The store part of a handler that returns before get_db_connection().
NoStoreAccess ==
    /\ db_log' = << >>
    /\ UNCHANGED << tables, clock, served >>

\* ------------------------------------------------------------- rows
\* The columns a handler gives a row; id and created_at are the store's.

learning_activities_row(user_id, topic, level) ==
    [ user_id |-> user_id, topic |-> topic, level |-> level,
      learning_path |-> [text |-> "Learning Path for", about |-> topic],
      progress |-> 0 ]

health_tracking_row(user_id, sleep_hours, exercise_minutes, water_glasses) ==
    LET data == wellness_data(sleep_hours, exercise_minutes, water_glasses)
    IN  [ user_id |-> user_id, tracking_type |-> "wellness", data |-> data,
          wellness_score |-> data.overall_score ]

meal_plans_row(user_id, ingredients, dietary_restrictions, meal_suggestions) ==
    LET ingredient_list == SplitList(ingredients)
        nutrition_score ==
            calculate_nutrition_score(ingredient_list, dietary_restrictions)
        meal_plan_data ==
            [ ingredients |-> ingredient_list,
              dietary_restrictions |-> dietary_restrictions,
              plan_content |-> meal_suggestions,
              nutrition_score |-> nutrition_score,
              estimated_cost |-> estimate_meal_cost(ingredient_list) ]
    IN  [ user_id |-> user_id, ingredients |-> ingredients,
          dietary_restrictions |-> dietary_restrictions,
          meal_plan |-> meal_plan_data, nutrition_score |-> nutrition_score ]

food_waste_reduction_row(user_id, expiring_items) ==
    LET item_list == SplitList(expiring_items)
        impact_score == calculate_waste_impact_score(item_list)
        \* "Saving n items ... by approximately n * 0.5 kg CO2"
        environmental_benefit ==
            [items |-> Len(item_list), co2_half_kg |-> Len(item_list)]
        waste_reduction_data ==
            [ expiring_items |-> item_list,
              suggestions |-> expiring_items,
              impact_score |-> impact_score,
              environmental_benefit |-> environmental_benefit ]
    IN  [ user_id |-> user_id, expiring_items |-> expiring_items,
          suggestions |-> waste_reduction_data, impact_score |-> impact_score ]

\* --------------------------------------------------------- handlers

generate_learning_path(db, tick) ==
    /\ Answering("generate_learning_path")
    /\ UNCHANGED << request, call, dashboard >>
    /\ external' = << >>
    /\ IF Missing(request.has_topic, request.topic)
       THEN /\ response' = Error(400, "Topic is required")
            /\ tick = 0
            /\ NoStoreAccess
       ELSE LET row == learning_activities_row(request.user, request.topic,
                                                   request.level)
                learning_path == row.learning_path
            IN  /\ Insert("learning_activities", row, db, tick)
                /\ response' =
                      IF Persisted(db)
                      THEN [ op |-> request.op, status |-> 200,
                             activity_id |-> lastrowid(learning_activities),
                             learning_path |-> learning_path,
                             topic |-> request.topic,
                             level |-> request.level ]
                      ELSE Error(500, "Failed to generate learning path")

answer_question(wiki_outcome, db, tick) ==
    /\ Answering("answer_question")
    /\ UNCHANGED << request, call, dashboard >>
    /\ IF Missing(request.has_question, request.question)
       THEN /\ response' = Error(400, "Question is required")
            /\ external' = << >>
            /\ tick = 0
            /\ NoStoreAccess
       ELSE LET answer == get_wikipedia_answer(request.question, wiki_outcome)
                confidence == 85
            IN  /\ external' = << Called("wikipedia", wiki_outcome) >>
                /\ Insert("qa_history",
                          [ user_id |-> request.user,
                            question |-> request.question,
                            answer |-> answer,
                            category |-> "education",
                            confidence_score |-> confidence ],
                          db, tick)
                /\ response' =
                      IF Persisted(db)
                      THEN [ op |-> request.op, status |-> 200,
                             question |-> request.question,
                             answer |-> answer,
                             confidence |-> confidence * 100 ]
                      ELSE Error(500, "Failed to answer question")

analyze_mental_health(advice_outcome, db, tick) ==
    /\ Answering("analyze_mental_health")
    /\ UNCHANGED << request, call, dashboard >>
    /\ IF Missing(request.has_mood_text, request.mood_text)
       THEN /\ response' = Error(400, "Mood text is required")
            /\ external' = << >>
            /\ tick = 0
            /\ NoStoreAccess
       ELSE LET s == analyze_sentiment(request.mood_text)
                sentiment == s.sentiment
                confidence == s.confidence
                advice == get_random_advice(advice_outcome)
                recommendations ==
                    Append(generate_mental_health_recommendations(sentiment,
                                                                  confidence),
                           advice)
            IN  /\ external' = << Called("advice", advice_outcome) >>
                /\ Insert("mental_health_assessments",
                          [ user_id |-> request.user,
                            assessment_text |-> request.mood_text,
                            sentiment |-> sentiment,
                            confidence_score |-> confidence,
                            recommendations |-> recommendations ],
                          db, tick)
                /\ response' =
                      IF Persisted(db)
                      THEN [ op |-> request.op, status |-> 200,
                             assessment_id |->
                                 lastrowid(mental_health_assessments),
                             sentiment |-> sentiment,
                             confidence |-> confidence * 100,
                             recommendations |-> recommendations,
                             mood_score |->
                                 calculate_mood_score(sentiment, confidence) ]
                      ELSE Error(500, "Failed to analyze mental health")

track_wellness(db, tick) ==
    /\ Answering("track_wellness")
    /\ UNCHANGED << request, call, dashboard >>
    /\ external' = << >>
    /\ LET row == health_tracking_row(request.user, request.sleep_hours,
                                      request.exercise_minutes,
                                      request.water_glasses)
           data == row.data
           score == row.wellness_score
       IN  /\ Insert("health_tracking", row, db, tick)
           /\ response' =
                 IF Persisted(db)
                 THEN [ op |-> request.op, status |-> 200,
                        tracking_id |-> lastrowid(health_tracking),
                        wellness_score |-> score,
                        breakdown |-> data,
                        recommendations |->
                            generate_wellness_recommendations(score, data) ]
                 ELSE Error(500, "Failed to track wellness")

health_question(db, tick) ==
    /\ Answering("health_question")
    /\ UNCHANGED << request, call, dashboard >>
    /\ external' = << >>
    /\ IF Missing(request.has_question, request.question)
       THEN /\ response' = Error(400, "Question is required")
            /\ tick = 0
            /\ NoStoreAccess
       ELSE LET full_answer ==
                    [text |-> "Health information about",
                     about |-> request.question]
            IN  /\ Insert("qa_history",
                          [ user_id |-> request.user,
                            question |-> request.question,
                            answer |-> full_answer,
                            category |-> "health",
                            confidence_score |-> 90 ],
                          db, tick)
                /\ response' =
                      IF Persisted(db)
                      THEN [ op |-> request.op, status |-> 200,
                             question |-> request.question,
                             answer |-> full_answer,
                             disclaimer |->
                                 "Always consult healthcare professionals for medical advice" ]
                      ELSE Error(500, "Failed to answer health question")

generate_meal_plan(meal_outcomes, db, tick) ==
    /\ Answering("generate_meal_plan")
    /\ UNCHANGED << request, call, dashboard >>
    /\ IF Missing(request.has_ingredients, request.ingredients)
       THEN /\ response' = Error(400, "Ingredients are required")
            /\ external' = << >>
            /\ meal_outcomes = << >>
            /\ tick = 0
            /\ NoStoreAccess
       ELSE LET ingredient_list == SplitList(request.ingredients)
                asked == Min(3, Len(ingredient_list))
                meal_suggestions ==
                    [i \in 1..asked |->
                        get_meal_suggestion(ingredient_list[i], meal_outcomes[i])]
                row == meal_plans_row(request.user, request.ingredients,
                                      request.dietary_restrictions,
                                      meal_suggestions)
                nutrition_score == row.nutrition_score
            IN  /\ Len(meal_outcomes) = asked
                /\ external' =
                      [i \in 1..asked |-> Called("mealdb", meal_outcomes[i])]
                /\ Insert("meal_plans", row, db, tick)
                /\ response' =
                      IF Persisted(db)
                      THEN [ op |-> request.op, status |-> 200,
                             plan_id |-> lastrowid(meal_plans),
                             meal_plan |-> meal_suggestions,
                             nutrition_score |-> nutrition_score,
                             ingredients_used |-> ingredient_list,
                             dietary_restrictions |->
                                 request.dietary_restrictions ]
                      ELSE Error(500, "Failed to generate meal plan")

reduce_food_waste(db, tick) ==
    /\ Answering("reduce_food_waste")
    /\ UNCHANGED << request, call, dashboard >>
    /\ external' = << >>
    /\ IF Missing(request.has_expiring_items, request.expiring_items)
       THEN /\ response' = Error(400, "Expiring items are required")
            /\ tick = 0
            /\ NoStoreAccess
       ELSE LET item_list == SplitList(request.expiring_items)
                row == food_waste_reduction_row(request.user,
                                                request.expiring_items)
                impact_score == row.impact_score
                environmental_benefit ==
                    row.suggestions.environmental_benefit
            IN  /\ Insert("food_waste_reduction", row, db, tick)
                /\ response' =
                      IF Persisted(db)
                      THEN [ op |-> request.op, status |-> 200,
                             reduction_id |-> lastrowid(food_waste_reduction),
                             suggestions |-> request.expiring_items,
                             impact_score |-> impact_score,
                             items_saved |-> Len(item_list),
                             environmental_impact |-> environmental_benefit ]
                      ELSE Error(500,
                                 "Failed to generate waste reduction suggestions")

nutrition_advice(db, tick) ==
    /\ Answering("nutrition_advice")
    /\ UNCHANGED << request, call, dashboard >>
    /\ external' = << >>
    /\ IF Missing(request.has_question, request.question)
       THEN /\ response' = Error(400, "Nutrition question is required")
            /\ tick = 0
            /\ NoStoreAccess
       ELSE LET full_advice ==
                    [text |-> "Nutrition advice about",
                     about |-> request.question]
            IN  /\ Insert("qa_history",
                          [ user_id |-> request.user,
                            question |-> request.question,
                            answer |-> full_advice,
                            category |-> "nutrition",
                            confidence_score |-> 90 ],
                          db, tick)
                /\ response' =
                      IF Persisted(db)
                      THEN [ op |-> request.op, status |-> 200,
                             question |-> request.question,
                             advice |-> full_advice,
                             disclaimer |->
                                 "Consult registered dietitians for personalized nutrition advice" ]
                      ELSE Error(500, "Failed to provide nutrition advice")

\* ------------------------------------------------------------ queries

\* WHERE user_id = %s
WhereUser(rows, user_id) == SelectSeq(rows, LAMBDA r : r.user_id = user_id)

\* The values of one column of the rows.
Column(rows, c) == [i \in 1..Len(rows) |-> rows[i][c]]

\* values[lo] + ... + values[hi], by halves.
RECURSIVE SumOf(_, _, _)
SumOf(values, lo, hi) ==
    IF lo > hi THEN 0
    ELSE IF lo = hi THEN values[lo]
    ELSE LET mid == (lo + hi) \div 2
         IN  SumOf(values, lo, mid) + SumOf(values, mid + 1, hi)

\* AVG of an INT column is a DECIMAL with four decimals, held as a * SqlDen.
SqlDen == 10000

\* n / d to the nearest integer, a tie away from zero (MySQL's DECIMAL rounding).
RoundHalfAway(n, d) ==
    IF n >= 0 THEN (2 * n + d) \div (2 * d)
    ELSE 0 - ((2 * (0 - n) + d) \div (2 * d))

NULL == [null |-> TRUE]

\* AVG(column): NULL over no rows.
AVG(values) ==
    IF values = << >> THEN NULL
    ELSE [ null |-> FALSE,
           value |-> RoundHalfAway(SumOf(values, 1, Len(values)) * SqlDen,
                                   Len(values)) ]

\* `x or 0` for a fetched aggregate: None and a zero both give 0.
OrZero(x) == IF x.null THEN 0 ELSE x.value

\* round(float(avg), 2) of an average in 1/SqlDen, in 1/AvgDen.  A value with
\* 5 as its third and 0 as its fourth decimal goes where its nearest double
\* falls; it is taken to the even neighbour here.
Round2(avg) == RoundHalfEven(avg, SqlDen \div AvgDen)

\* An average in 1/SqlDen cut to 1/AvgDen.  The thresholds of
\* determine_health_status are whole numbers, so comparing the cut value with
\* them decides as comparing the DECIMAL itself does.
Cut2(avg) == avg \div (SqlDen \div AvgDen)

TieOrders == { "id_asc", "id_desc" }

\* ORDER BY created_at DESC.  created_at has a resolution of one second and
\* SQL leaves the order of rows of the same second open: ties says which way
\* the store returned them.
OrderByCreatedAtDesc(rows, ties) ==
    SortSeq(rows,
            LAMBDA a, b :
                \/ a.created_at > b.created_at
                \/ /\ a.created_at = b.created_at
                   /\ IF ties = "id_asc" THEN a.id < b.id ELSE a.id > b.id)

\* LIMIT n
Limit(rows, n) == SubSeq(rows, 1, Min(n, Len(rows)))

\* The committed content of the tables.
Committed ==
    [ learning_activities |-> learning_activities,
      qa_history |-> qa_history,
      health_tracking |-> health_tracking,
      mental_health_assessments |-> mental_health_assessments,
      meal_plans |-> meal_plans,
      food_waste_reduction |-> food_waste_reduction ]

\* ------------------------------------------------- get_user_history

valid_categories == << "education", "health", "nutrition" >>

\* What Flask answers when the view function raises.
Unhandled(exception) ==
    [ op |-> request.op, status |-> 500, error |-> "Internal Server Error",
      raised |-> exception ]

HistoryTable(category) ==
    CASE category = "education" -> "qa_history"
      [] category = "health"    -> "health_tracking"
      [] OTHER                  -> "meal_plans"

\* The rows the SELECT of the category returns, formatted.
formatted_history(user_id, category, ties) ==
    LET mine(rows) == Limit(OrderByCreatedAtDesc(WhereUser(rows, user_id), ties), 20)
        education == mine(SelectSeq(qa_history,
                                    LAMBDA r : r.category = "education"))
        health == mine(health_tracking)
        nutrition == mine(meal_plans)
    IN  CASE category = "education" ->
                [i \in 1..Len(education) |->
                    [ question |-> education[i].question,
                      answer |-> education[i].answer,
                      confidence |-> education[i].confidence_score,
                      date |-> education[i].created_at ]]
          [] category = "health" ->
                [i \in 1..Len(health) |->
                    [ type |-> health[i].tracking_type,
                      score |-> health[i].wellness_score,
                      date |-> health[i].created_at ]]
          [] OTHER ->
                [i \in 1..Len(nutrition) |->
                    [ ingredients |-> nutrition[i].ingredients,
                      nutrition_score |-> nutrition[i].nutrition_score,
                      date |-> nutrition[i].created_at ]]

\* connection is first assigned after the category check and the function
\* has no `connection = None` before its try: for a category outside
\* valid_categories the `return ..., 400` runs the finally clause, whose
\* `if connection:` reads the unbound local and raises UnboundLocalError in
\* place of the return.
get_user_history(db, ties) ==
    /\ Answering("get_user_history")
    /\ UNCHANGED << request, call, dashboard, tables, clock, served >>
    /\ external' = << >>
    /\ IF request.category \notin Range(valid_categories)
       THEN /\ response' = Unhandled("UnboundLocalError")
            /\ db = "ok"
            /\ ties = "id_asc"
            /\ db_log' = << >>
       ELSE LET table == HistoryTable(request.category)
            IN  CASE db = "connect_failed" ->
                       /\ response' = Error(500, "Failed to retrieve history")
                       /\ ties = "id_asc"
                       /\ db_log' = << Connect(FALSE) >>
                  [] db = "execute_failed" ->
                       /\ response' = Error(500, "Failed to retrieve history")
                       /\ ties = "id_asc"
                       /\ db_log' = << Connect(TRUE),
                                       Statement("select", table, FALSE) >>
                  [] OTHER ->
                       /\ response' =
                             [ op |-> request.op, status |-> 200,
                               category |-> request.category,
                               history |->
                                   formatted_history(request.user,
                                                     request.category, ties) ]
                       /\ db_log' = << Connect(TRUE),
                                       Statement("select", table, TRUE) >>

\* ------------------------------------------- the progress aggregators
\* cursor: the tables as the cursor's connection reads them.

calculate_education_progress(user_id, cursor) ==
    LET rows == WhereUser(cursor.learning_activities, user_id)
        activity_count == Len(rows)
        avg_progress == OrZero(AVG(Column(rows, "progress")))
    IN  [ total_activities |-> activity_count,
          average_progress |-> Round2(avg_progress),
          level |-> determine_education_level(activity_count, avg_progress) ]

calculate_health_progress(user_id, cursor) ==
    LET rows == WhereUser(cursor.health_tracking, user_id)
        tracking_count == Len(rows)
        avg_score == OrZero(AVG(Column(rows, "wellness_score")))
    IN  [ tracking_sessions |-> tracking_count,
          average_score |-> Round2(avg_score),
          status |-> determine_health_status(Cut2(avg_score)) ]

calculate_nutrition_progress(user_id, cursor) ==
    LET meals == WhereUser(cursor.meal_plans, user_id)
        wastes == WhereUser(cursor.food_waste_reduction, user_id)
        avg_nutrition == OrZero(AVG(Column(meals, "nutrition_score")))
        avg_impact == OrZero(AVG(Column(wastes, "impact_score")))
    IN  [ meal_plans |-> Len(meals),
          waste_reduction_actions |-> Len(wastes),
          average_nutrition_score |-> Round2(avg_nutrition),
          average_impact_score |-> Round2(avg_impact) ]

\* --------------------------------------------------- user_dashboard

\* Table users: every user of Users is registered; no handler here changes it.
users ==
    [ u \in Users |->
        [ email |-> <<"a@example.org", "b@example.org">>[u],
          is_premium |-> FALSE, premium_expires |-> NULL, created_at |-> 0 ] ]

\* Variant of ReadView in which every SELECT reads what is committed by then.
ReadView_read_committed(connection) == Committed

\* What the SELECTs of a connection read.  The handler opens one connection,
\* never commits on it and sets neither autocommit nor an isolation level;
\* the store then serves all its SELECTs from the snapshot its first SELECT
\* took.
ReadView(connection) == connection.view

\* Variant of learning_count whose COUNT has no WHERE user_id.
learning_count_all_users(user_id, cursor) == Len(cursor.learning_activities)

\* SELECT COUNT(*) FROM learning_activities WHERE user_id = %s
learning_count(user_id, cursor) ==
    Len(WhereUser(cursor.learning_activities, user_id))

\* Variant of recent_learning with LIMIT 5 before ORDER BY.
recent_learning_limit_first(user_id, cursor, ties) ==
    OrderByCreatedAtDesc(Limit(WhereUser(cursor.learning_activities, user_id), 5),
                         ties)

\* SELECT ... FROM learning_activities ... ORDER BY created_at DESC LIMIT 5
recent_learning(user_id, cursor, ties) ==
    Limit(OrderByCreatedAtDesc(WhereUser(cursor.learning_activities, user_id),
                               ties), 5)

recent_health(user_id, cursor, ties) ==
    Limit(OrderByCreatedAtDesc(WhereUser(cursor.health_tracking, user_id),
                               ties), 5)

\* The queries between the user's row and dashboard_data.
dashboard_queries(user_id, cursor, ties) ==
    [ learning_count |-> learning_count(user_id, cursor),
      health_count |-> Len(WhereUser(cursor.health_tracking, user_id)),
      meal_plans_count |-> Len(WhereUser(cursor.meal_plans, user_id)),
      waste_reduction_count |->
          Len(WhereUser(cursor.food_waste_reduction, user_id)),
      avg_wellness_score |->
          OrZero(AVG(Column(WhereUser(cursor.health_tracking, user_id),
                            "wellness_score"))),
      recent_learning |-> recent_learning(user_id, cursor, ties),
      recent_health |-> recent_health(user_id, cursor, ties) ]

dashboard_data(user_id, user_info, q, cursor) ==
    [ user_info |->
          [ email |-> user_info.email,
            is_premium |-> user_info.is_premium,
            premium_expires |-> user_info.premium_expires,
            member_since |-> user_info.created_at ],
      activity_counts |->
          [ learning_activities |-> q.learning_count,
            health_tracking |-> q.health_count,
            meal_plans |-> q.meal_plans_count,
            waste_reduction |-> q.waste_reduction_count ],
      wellness_score |-> Round2(q.avg_wellness_score),
      recent_activities |->
          [i \in 1..Len(q.recent_learning) |->
              [ topic |-> q.recent_learning[i].topic,
                level |-> q.recent_learning[i].level,
                progress |-> q.recent_learning[i].progress,
                date |-> q.recent_learning[i].created_at ]],
      recent_health |->
          [i \in 1..Len(q.recent_health) |->
              [ type |-> q.recent_health[i].tracking_type,
                score |-> q.recent_health[i].wellness_score,
                date |-> q.recent_health[i].created_at ]],
      sdg_progress |->
          [ education |-> calculate_education_progress(user_id, cursor),
            health |-> calculate_health_progress(user_id, cursor),
            nutrition |-> calculate_nutrition_progress(user_id, cursor) ] ]

DashboardError ==
    [op |-> "user_dashboard", status |-> 500, error |-> "Failed to load dashboard"]

\* get_db_connection(), connection.cursor() and the SELECT of the user's row.
user_dashboard_connect(db) ==
    /\ dashboard.pc = "start"
    /\ dashboard' =
          IF db = "ok"
          THEN [ pc |-> "queries", user |-> dashboard.user,
                 log |-> << Connect(TRUE), Statement("select", "users", TRUE) >>,
                 view |-> Committed, user_info |-> users[dashboard.user] ]
          ELSE [ pc |-> "done", user |-> dashboard.user,
                 log |-> IF db = "connect_failed" THEN << Connect(FALSE) >>
                         ELSE << Connect(TRUE),
                                 Statement("select", "users", FALSE) >>,
                 response |-> DashboardError ]
    /\ UNCHANGED << tables, clock, request, response, external, db_log,
                    served, call >>

\* The counts, the average and the two recent lists.
user_dashboard_queries(ties) ==
    /\ dashboard.pc = "queries"
    /\ dashboard' =
          [ pc |-> "progress", user |-> dashboard.user, log |-> dashboard.log,
            view |-> dashboard.view, user_info |-> dashboard.user_info,
            q |-> dashboard_queries(dashboard.user, ReadView(dashboard), ties) ]
    /\ UNCHANGED << tables, clock, request, response, external, db_log,
                    served, call >>

\* dashboard_data with the three aggregators, and the response.
user_dashboard_respond ==
    /\ dashboard.pc = "progress"
    /\ dashboard' =
          [ pc |-> "done", user |-> dashboard.user, log |-> dashboard.log,
            view |-> dashboard.view,
            response |->
                [ op |-> "user_dashboard", status |-> 200,
                  dashboard |->
                      dashboard_data(dashboard.user, dashboard.user_info,
                                     dashboard.q, ReadView(dashboard)) ] ]
    /\ UNCHANGED << tables, clock, request, response, external, db_log,
                    served, call >>

user_dashboard ==
    \/ \E db \in DbOutcomes : user_dashboard_connect(db)
    \/ \E ties \in TieOrders : user_dashboard_queries(ties)
    \/ user_dashboard_respond

\* The handlers that answer the request in `request`.
Handle ==
    \/ \E db \in DbOutcomes, tick \in 0..1 : generate_learning_path(db, tick)
    \/ \E w \in WikiOutcomes, db \in DbOutcomes, tick \in 0..1 :
          answer_question(w, db, tick)
    \/ \E a \in AdviceOutcomes, db \in DbOutcomes, tick \in 0..1 :
          analyze_mental_health(a, db, tick)
    \/ \E db \in DbOutcomes, tick \in 0..1 : track_wellness(db, tick)
    \/ \E db \in DbOutcomes, tick \in 0..1 : health_question(db, tick)
    \/ \E k \in 0..3, db \in DbOutcomes, tick \in 0..1 :
          \E m \in [1..k -> MealOutcomes] : generate_meal_plan(m, db, tick)
    \/ \E db \in DbOutcomes, tick \in 0..1 : reduce_food_waste(db, tick)
    \/ \E db \in DbOutcomes, tick \in 0..1 : nutrition_advice(db, tick)
    \/ \E db \in DbOutcomes, ties \in TieOrders : get_user_history(db, ties)

\* --------------------------------------------------------- requests

SleepHours == (0 - 8)..MaxSleepHours

ExerciseMinutes == { 0 - 30, 0, 3, 9, 20, 21, 30, 31, 60 }

WaterGlasses == (0 - 8)..MaxWaterGlasses

MoodTexts == { Concat(ws) : ws \in SeqsUpTo(TextFragments, 1) }

IngredientTexts ==
    { << >>,
      <<"r","i","c","e">>,
      <<",">>,
      <<"v","e","g","e","t","a","b","l","e","s",",","c","h","i","c","k","e","n">>,
      <<" ","L","e","g","u","m","e","s"," ",","," ","r","i","c","e",",",
        "b","e","a","n","s"," ",",","L","E","A","N"," ","P","R","O","T","E","I","N">> }

ExpiringTexts ==
    { << >>,
      <<"m","i","l","k">>,
      <<"m","i","l","k",",","b","r","e","a","d",",","e","g","g","s">>,
      <<"a",",","b",",","c",",","d",",","e",",","f",",","g">> }

TopicTexts == { << >>, <<"S","Q","L">> }

QuestionTexts == { << >>, <<"W","h","y","?">> }

\* ENUM('beginner', 'intermediate', 'advanced'); a request without a level
\* is the request with 'beginner'.
Levels == { "beginner", "intermediate", "advanced" }

\* The <category> of /api/user-history/<category>: a path segment, never empty.
Categories == { "education", "health", "nutrition", "Health", "sports" }

\* An optional string field of the request body: given with a value of S, or not.
Optional(S) ==
    { [has |-> TRUE, text |-> t] : t \in S } \cup { [has |-> FALSE, text |-> << >>] }

\* sleep_hours, exercise_minutes and water_glasses default to 0 when not given:
\* a request without one is the request with 0.
WellnessRequests(who, sleeps, exercises, waters) ==
    { [ op |-> "track_wellness", user |-> u, sleep_hours |-> sl,
        exercise_minutes |-> ex, water_glasses |-> wa ] :
      u \in who, sl \in sleeps, ex \in exercises, wa \in waters }

MoodRequests(who, texts) ==
    { [ op |-> "analyze_mental_health", user |-> u,
        has_mood_text |-> o.has, mood_text |-> o.text ] :
      u \in who, o \in Optional(texts) }

MealRequests(who, texts, restrictions) ==
    { [ op |-> "generate_meal_plan", user |-> u,
        has_ingredients |-> o.has, ingredients |-> o.text,
        dietary_restrictions |-> r ] :
      u \in who, o \in Optional(texts), r \in restrictions }

WasteRequests(who, texts) ==
    { [ op |-> "reduce_food_waste", user |-> u,
        has_expiring_items |-> o.has, expiring_items |-> o.text ] :
      u \in who, o \in Optional(texts) }

LearningRequests(who, texts, levels) ==
    { [ op |-> "generate_learning_path", user |-> u,
        has_topic |-> o.has, topic |-> o.text, level |-> l ] :
      u \in who, o \in Optional(texts), l \in levels }

QuestionRequests(ops, who, texts) ==
    { [ op |-> op, user |-> u, has_question |-> o.has, question |-> o.text ] :
      op \in ops, u \in who, o \in Optional(texts) }

HistoryRequests(who, categories) ==
    { [ op |-> "get_user_history", user |-> u, category |-> c ] :
      u \in who, c \in categories }

QuestionOps == { "answer_question", "health_question", "nutrition_advice" }

\* Requests over the wide input ranges.
Requests ==
    WellnessRequests(Users, SleepHours, ExerciseMinutes, WaterGlasses)
    \cup MoodRequests(Users, MoodTexts)
    \cup MealRequests(Users, IngredientTexts, DietaryRestrictions)
    \cup WasteRequests(Users, ExpiringTexts)
    \cup LearningRequests(Users, TopicTexts, Levels)
    \cup QuestionRequests(QuestionOps, Users, QuestionTexts)
    \cup HistoryRequests(Users, Categories)

\* A few requests for runs of several requests: by both users into the tables
\* the dashboard reads, and one that is refused of each other kind.
FewRequests ==
    LearningRequests(Users, { <<"S","Q","L">> }, { "beginner" })
    \cup WellnessRequests(Users, { 8 }, { 30 }, { 0 - 8, 8 })
    \cup MealRequests({ 1 }, { << >>, <<"r","i","c","e">> }, { "none" })
    \cup WasteRequests({ 2 }, { << >>, <<"m","i","l","k">> })
    \cup MoodRequests({ 1 }, { << >> })
    \cup QuestionRequests(QuestionOps, { 2 }, { })
    \cup HistoryRequests({ 1 }, { "health", "sports" })

\* ------------------------------------------- one request, wide inputs

RequestInit ==
    /\ health_tracking = << >>
    /\ meal_plans = << >>
    /\ food_waste_reduction = << >>
    /\ mental_health_assessments = << >>
    /\ learning_activities = << >>
    /\ qa_history = << >>
    /\ clock = 0
    /\ request \in Requests
    /\ response = NoResponse
    /\ external = << >>
    /\ db_log = << >>
    /\ served = NoneServed
    /\ dashboard = NoDashboard
    /\ call = NoCall

SpecRequest == RequestInit /\ [][Handle]_vars

\* ------------------------------------------------ successive requests
\* The requests are served one after another.

receive(req) ==
    /\ request = NoRequest \/ response # NoResponse
    /\ dashboard.pc \in { "idle", "done" }
    /\ TotalRows < MaxRows
    /\ request' = req
    /\ response' = NoResponse
    /\ external' = << >>
    /\ db_log' = << >>
    /\ dashboard' = NoDashboard
    /\ UNCHANGED << tables, clock, served, call >>

\* A user_dashboard request arrives.
dashboard_receive(user_id) ==
    /\ request = NoRequest \/ response # NoResponse
    /\ dashboard.pc \in { "idle", "done" }
    /\ request' = NoRequest
    /\ response' = NoResponse
    /\ external' = << >>
    /\ db_log' = << >>
    /\ dashboard' = [pc |-> "start", user |-> user_id]
    /\ UNCHANGED << tables, clock, served, call >>

Init == StoreInit /\ call = NoCall

Next ==
    \/ \E req \in FewRequests : receive(req)
    \/ \E u \in Users : dashboard_receive(u)
    \/ Handle
    \/ user_dashboard

Spec == Init /\ [][Next]_vars

\* --------------------------------- a dashboard beside another request
\* The store holds the rows of earlier requests; a dashboard request and one
\* other request are under way at once, each on its own connection.

OwnerPatterns == { "one", "mixed" }

\* The user whose request stored row i.
OwnerOf(pattern, i) == IF pattern = "mixed" /\ i % 3 = 0 THEN 2 ELSE 1

TimePatterns == { "distinct", "pairs", "same" }

\* The second in which row i was stored.
TimeOf(pattern, i) ==
    CASE pattern = "distinct" -> i
      [] pattern = "pairs"    -> (i + 1) \div 2
      [] OTHER                -> 1

\* The tables after n learning paths and n wellness trackings, a meal plan
\* for every second of them and a waste reduction for every fourth.
History(n, owners, times) ==
    LET stored(i, row) == [id |-> i, created_at |-> TimeOf(times, i)] @@ row
    IN  [ learning_activities |->
              [i \in 1..n |->
                  stored(i, learning_activities_row(
                                OwnerOf(owners, i),
                                IF i % 2 = 0 THEN <<"S","Q","L">> ELSE <<"G","o">>,
                                IF i % 3 = 0 THEN "advanced" ELSE "beginner"))],
          health_tracking |->
              [i \in 1..n |->
                  stored(i, health_tracking_row(OwnerOf(owners, i + 1), 8, 30,
                                                IF i % 2 = 0 THEN 8 ELSE 0))],
          meal_plans |->
              [i \in 1..(n \div 2) |->
                  stored(i, meal_plans_row(
                                OwnerOf(owners, i + 2), <<"r","i","c","e">>, "none",
                                << get_meal_suggestion(<<"r","i","c","e">>,
                                                       "recipe") >>))],
          food_waste_reduction |->
              [i \in 1..(n \div 4) |->
                  stored(i, food_waste_reduction_row(OwnerOf(owners, i),
                                                     <<"m","i","l","k">>))],
          mental_health_assessments |-> << >>,
          qa_history |-> << >> ]

Histories ==
    { History(n, o, t) : n \in 0..MaxRecent, o \in OwnerPatterns,
                         t \in TimePatterns }

DashboardInit ==
    /\ \E h \in Histories :
          /\ learning_activities = h.learning_activities
          /\ health_tracking = h.health_tracking
          /\ meal_plans = h.meal_plans
          /\ food_waste_reduction = h.food_waste_reduction
          /\ mental_health_assessments = h.mental_health_assessments
          /\ qa_history = h.qa_history
          /\ clock = IF h.learning_activities = << >> THEN 0
                     ELSE h.learning_activities[Len(h.learning_activities)].created_at
          /\ served = [u \in Users |-> [t \in TableNames |->
                                          Len(WhereUser(h[t], u))]]
    /\ request \in FewRequests \cup { NoRequest }
    /\ response = NoResponse
    /\ external = << >>
    /\ db_log = << >>
    /\ \E u \in Users : dashboard = [pc |-> "start", user |-> u]
    /\ call = NoCall

DashboardNext ==
    \/ Handle
    \/ user_dashboard

SpecDashboard == DashboardInit /\ [][DashboardNext]_vars

\* ------------------------------ direct calls of calculate_health_progress
\* over the wellness history of a user who tracked the same two days again
\* and again.

\* n80 rows of wellness score 80 (7 h sleep, 27 min exercise, 5 glasses)
\* followed by n79 rows of score 79 (8 h, 30 min, 3 glasses), all of user 1.
WellnessHistory(n80, n79) ==
    [i \in 1..(n80 + n79) |->
        [id |-> i, created_at |-> i]
          @@ (IF i <= n80 THEN health_tracking_row(1, 7, 27, 5)
              ELSE health_tracking_row(1, 8, 30, 3))]

ProgressInit ==
    /\ \E n80 \in 0..MaxHistory, n79 \in 0..1 :
          /\ health_tracking = WellnessHistory(n80, n79)
          /\ clock = n80 + n79
          /\ served = [NoneServed EXCEPT ![1]["health_tracking"] = n80 + n79]
    /\ meal_plans = << >>
    /\ food_waste_reduction = << >>
    /\ mental_health_assessments = << >>
    /\ learning_activities = << >>
    /\ qa_history = << >>
    /\ request = NoRequest
    /\ response = NoResponse
    /\ external = << >>
    /\ db_log = << >>
    /\ dashboard = NoDashboard
    /\ call \in { [fn |-> "calculate_health_progress", args |-> [user_id |-> u]] :
                  u \in Users }

call_calculate_health_progress ==
    /\ Pending("calculate_health_progress")
    /\ Return(calculate_health_progress(call.args.user_id, Committed))

SpecProgress == ProgressInit /\ [][call_calculate_health_progress]_vars

\* ------------------------------- a learner's requests and dashboards
\* One user asks for learning paths again and again and looks at the
\* dashboard in between; a dashboard may be taken while a learning path is
\* being generated.  Another user's activities are in the store from the
\* start.

\* Most learning paths the learner asks for.
MaxActivities == 21

\* The learning activities another user has stored before.
OtherActivities == 3

LearnerRequests ==
    LearningRequests({ 1 }, { << >>, <<"S","Q","L">> }, { "beginner" })

LearnerInit ==
    /\ \E n \in { 0, OtherActivities } :
          /\ learning_activities =
                [i \in 1..n |->
                    [id |-> i, created_at |-> i]
                      @@ learning_activities_row(2, <<"G","o">>, "advanced")]
          /\ clock = n
          /\ served = [NoneServed EXCEPT ![2]["learning_activities"] = n]
    /\ health_tracking = << >>
    /\ meal_plans = << >>
    /\ food_waste_reduction = << >>
    /\ mental_health_assessments = << >>
    /\ qa_history = << >>
    /\ request = NoRequest
    /\ response = NoResponse
    /\ external = << >>
    /\ db_log = << >>
    /\ dashboard = NoDashboard
    /\ call = NoCall

\* A request of the learner arrives once the one before it and the dashboard
\* before it are answered.
learner_receive(req) ==
    /\ request = NoRequest \/ response # NoResponse
    /\ dashboard.pc \in { "idle", "done" }
    /\ served[req.user]["learning_activities"] < MaxActivities
    /\ request' = req
    /\ response' = NoResponse
    /\ external' = << >>
    /\ db_log' = << >>
    /\ dashboard' = NoDashboard
    /\ UNCHANGED << tables, clock, served, call >>

\* A user_dashboard request arrives, possibly before the learning path under
\* way is answered.
learner_dashboard_receive(user_id) ==
    /\ dashboard.pc \in { "idle", "done" }
    /\ dashboard' = [pc |-> "start", user |-> user_id]
    /\ UNCHANGED << tables, clock, request, response, external, db_log,
                    served, call >>

\* Each stored learning path is one second after the row before it.
LearnerNext ==
    \/ \E req \in LearnerRequests : learner_receive(req)
    \/ \E u \in Users : learner_dashboard_receive(u)
    \/ \E db \in DbOutcomes :
          generate_learning_path(db, IF Persisted(db) THEN 1 ELSE 0)
    \/ user_dashboard

SpecLearner == LearnerInit /\ [][LearnerNext]_vars

\* --------------------- mood analyses followed by calls of the generator
\* Mood texts are analysed one after another; after an analysis is answered,
\* generate_mental_health_recommendations is called directly.

\* Most mood analyses stored.
MaxAssessments == 3

AnalysisRequests ==
    MoodRequests({ 1 }, { <<"g","o","o","d">>, <<"b","a","d">> })

RecommendationCalls ==
    { [fn |-> "generate_mental_health_recommendations",
       args |-> [sentiment |-> s, confidence |-> 70]] :
      s \in { "POSITIVE", "NEGATIVE", "NEUTRAL" } }

analysis_receive(req) ==
    /\ request = NoRequest \/ response # NoResponse
    /\ Len(mental_health_assessments) < MaxAssessments
    /\ request' = req
    /\ response' = NoResponse
    /\ external' = << >>
    /\ db_log' = << >>
    /\ UNCHANGED << tables, clock, served, dashboard, call >>

\* The generator is called once an analysis has been answered.
recommendations_called(c) ==
    /\ response # NoResponse
    /\ call' = c
    /\ StoreUnchanged

AnalysisNext ==
    \/ \E req \in AnalysisRequests : analysis_receive(req)
    \/ \E a \in { "ok", "error" }, db \in DbOutcomes :
          analyze_mental_health(a, db, IF Persisted(db) THEN 1 ELSE 0)
    \/ \E c \in RecommendationCalls : recommendations_called(c)
    \/ call_generate_mental_health_recommendations

SpecAnalysis == Init /\ [][AnalysisNext]_vars

\* ------------------------- direct calls of analyze_sentiment on short texts

\* Longest text given to analyze_sentiment here, in fragments of TextFragments.
MaxRepeatWords == 2

\* Most further copies of a keyword written into a text.
MaxRepeats == 2

ShortTexts == { Concat(ws) : ws \in SeqsUpTo(TextFragments, MaxRepeatWords) }

RepeatInit ==
    /\ StoreInit
    /\ call \in { [fn |-> "analyze_sentiment", args |-> [text |-> t]] :
                  t \in ShortTexts }

SpecRepeat == RepeatInit /\ [][call_analyze_sentiment]_vars

\* =================================================================
\* Properties
\* =================================================================

Abs(x) == IF x >= 0 THEN x ELSE 0 - x

\* A successful response of handler op.
Succeeded(op) == response.op = op /\ response.status = 200

\* C1: every derived score is within [0,100] for every input the operations
\* accept: the sleep, exercise and water sub-scores and the overall score of
\* track_wellness (negative inputs included), the nutrition score of a meal
\* plan and the impact score of a waste reduction.
C1_ScoresWithinRange ==
    /\ Succeeded("track_wellness") =>
          /\ response.breakdown.sleep_score \in 0..(100 * ScoreDen)
          /\ response.breakdown.exercise_score \in 0..(100 * ScoreDen)
          /\ response.breakdown.water_score \in 0..(100 * ScoreDen)
          /\ response.wellness_score \in 0..100
    /\ Succeeded("generate_meal_plan") => response.nutrition_score \in 0..100
    /\ Succeeded("reduce_food_waste") => response.impact_score \in 0..100

\* C2: analyze_sentiment returns POSITIVE/0.70 when more positive than negative
\* keywords occur in the lower-cased text as substrings, NEGATIVE/0.70 when
\* more negative ones occur, and NEUTRAL/0.60 on a tie, which includes the
\* empty text and every text without a keyword.
C2_SentimentByHitCounts ==
    Returned("analyze_sentiment") =>
        LET text == Lower(call.args.text)
            P == Cardinality({ w \in Range(positive_words) : Contains(text, w) })
            N == Cardinality({ w \in Range(negative_words) : Contains(text, w) })
        IN  /\ P > N => call.result = [sentiment |-> "POSITIVE", confidence |-> 70]
            /\ N > P => call.result = [sentiment |-> "NEGATIVE", confidence |-> 70]
            /\ P = N => call.result = [sentiment |-> "NEUTRAL", confidence |-> 60]
            /\ call.args.text = << >> =>
                  call.result = [sentiment |-> "NEUTRAL", confidence |-> 60]

\* A tie of one positive and one negative keyword was classified.
C2_Witness ==
    /\ Returned("analyze_sentiment")
    /\ call.args.text = <<"H","a","p","p","y","S","A","D">>
    /\ call.result.sentiment = "NEUTRAL"

\* C3: calculate_mood_score equals clamp(base + (confidence - 0.5) * 20, 10, 100)
\* with base 85 / 60 / 35 for POSITIVE / NEUTRAL / NEGATIVE; for a fixed label
\* it does not decrease when the confidence grows; it is within [10,100] for
\* every confidence.
C3_MoodScoreClamped ==
    Returned("calculate_mood_score") =>
        LET label == call.args.sentiment
            c == call.args.confidence
            base == IF label = "POSITIVE" THEN 85
                    ELSE IF label = "NEUTRAL" THEN 60 ELSE 35
            raw == base * ConfDen + (c - ConfDen \div 2) * 20
            clamped == IF raw < 10 * ConfDen THEN 10 * ConfDen
                       ELSE IF raw > 100 * ConfDen THEN 100 * ConfDen ELSE raw
        IN  /\ label \in { "POSITIVE", "NEUTRAL", "NEGATIVE" } =>
                  call.result = clamped
            /\ call.result >= 10 * ConfDen
            /\ call.result <= 100 * ConfDen
            /\ \A lower \in Confidences :
                  lower <= c => calculate_mood_score(label, lower) <= call.result

\* The lower clamp was the result.
C3_Witness ==
    /\ Returned("calculate_mood_score")
    /\ call.args.sentiment = "NEGATIVE"
    /\ call.args.confidence < 0 - ConfDen
    /\ call.result = 10 * ConfDen

\* C4: track_wellness caps each sub-score at 100 once its metric reaches the
\* target (8 hours, 30 minutes, 8 glasses): with all three at or above target
\* all four scores are 100, with (0,0,0) all four are 0, and the overall score
\* is the mean of the three sub-scores rounded to an integer.
C4_WellnessCapsAtTarget ==
    Succeeded("track_wellness") =>
        LET b == response.breakdown
            sum == b.sleep_score + b.exercise_score + b.water_score
        IN  /\ b.sleep_hours >= 8 => b.sleep_score = 100 * ScoreDen
            /\ b.exercise_minutes >= 30 => b.exercise_score = 100 * ScoreDen
            /\ b.water_glasses >= 8 => b.water_score = 100 * ScoreDen
            /\ (b.sleep_hours >= 8 /\ b.exercise_minutes >= 30
                  /\ b.water_glasses >= 8) =>
                  response.wellness_score = 100 /\ b.overall_score = 100
            /\ (b.sleep_hours = 0 /\ b.exercise_minutes = 0
                  /\ b.water_glasses = 0) =>
                  /\ b.sleep_score = 0 /\ b.exercise_score = 0
                  /\ b.water_score = 0 /\ response.wellness_score = 0
            /\ b.overall_score = response.wellness_score
            /\ 2 * Abs(3 * ScoreDen * response.wellness_score - sum)
                  <= 3 * ScoreDen

\* A sample with every metric above its target was scored.
C4_Witness ==
    /\ Succeeded("track_wellness")
    /\ response.breakdown.sleep_hours > 8
    /\ response.breakdown.exercise_minutes > 30
    /\ response.breakdown.water_glasses > 8
    /\ response.wellness_score = 100

C6_WasteImpactScore ==
    Returned("calculate_waste_impact_score") =>
        LET n == Len(call.args.items)
        IN  /\ call.result = (IF 15 * n > 100 THEN 100 ELSE 15 * n)
            /\ n = 3 => call.result = 45
            /\ n >= 7 => call.result = 100
            /\ \A x \in Range(ItemKinds) :
                  calculate_waste_impact_score(Append(call.args.items, x))
                    >= call.result

\* A list of ten items was scored 100.
C6_Witness ==
    /\ Returned("calculate_waste_impact_score")
    /\ Len(call.args.items) = 10
    /\ call.result = 100

C8_HealthStatusThresholds ==
    Returned("determine_health_status") =>
        LET a == call.args.avg_score
        IN  /\ a >= 80 * AvgDen => call.result = "Excellent"
            /\ (a >= 60 * AvgDen /\ a < 80 * AvgDen) => call.result = "Good"
            /\ (a >= 40 * AvgDen /\ a < 60 * AvgDen) => call.result = "Fair"
            /\ a < 40 * AvgDen => call.result = "Needs Improvement"
            /\ a = 80 * AvgDen - 1 => call.result = "Good"
            /\ a = 80 * AvgDen => call.result = "Excellent"

\* The average 79.99 was labelled Good.
C8_Witness ==
    /\ Returned("determine_health_status")
    /\ call.args.avg_score = 80 * AvgDen - 1
    /\ call.result = "Good"

\* C9: generate_mental_health_recommendations returns the authored list of the
\* label in authored order: three strings for POSITIVE, four for NEGATIVE,
\* four for NEUTRAL, the NEUTRAL list for any other label; never an empty list.
C9_RecommendationsByLabel ==
    Returned("generate_mental_health_recommendations") =>
        LET label == call.args.sentiment
        IN  /\ label = "POSITIVE" =>
                  /\ call.result = recommendations_POSITIVE
                  /\ Len(call.result) = 3
            /\ label = "NEGATIVE" =>
                  /\ call.result = recommendations_NEGATIVE
                  /\ Len(call.result) = 4
            /\ label = "NEUTRAL" =>
                  /\ call.result = recommendations_NEUTRAL
                  /\ Len(call.result) = 4
            /\ label \notin { "POSITIVE", "NEGATIVE", "NEUTRAL" } =>
                  call.result = recommendations_NEUTRAL
            /\ call.result # << >>

\* A label outside the three was answered with the NEUTRAL list.
C9_Witness ==
    /\ Returned("generate_mental_health_recommendations")
    /\ call.args.sentiment = "MIXED"
    /\ call.result = recommendations_NEUTRAL
    /\ Len(call.result) = 4

\* C10: generate_wellness_recommendations returns at most four items in the
\* order sleep tip, exercise tip, water tip, closing remark: a tip is present
\* exactly when its sub-score is below 70, and exactly one closing remark is
\* the last item: 'excellent' from 80, 'right track' from 60 to below 80,
\* 'gradual improvements' otherwise.
C10_WellnessRecommendations ==
    Returned("generate_wellness_recommendations") =>
        LET r == call.result
            d == call.args.wellness_data
            w == call.args.wellness_score
            Remarks == { ExcellentRemark, RightTrackRemark, GradualRemark }
            At(x) == { i \in 1..Len(r) : r[i] = x }
            Before(x, y) == \A i \in At(x), j \in At(y) : i < j
        IN  /\ Len(r) >= 1
            /\ Len(r) <= 4
            /\ Range(r) \subseteq { SleepTip, ExerciseTip, WaterTip } \cup Remarks
            /\ \A x \in Range(r) : Cardinality(At(x)) = 1
            /\ SleepTip \in Range(r) <=> d.sleep_score < 70 * ScoreDen
            /\ ExerciseTip \in Range(r) <=> d.exercise_score < 70 * ScoreDen
            /\ WaterTip \in Range(r) <=> d.water_score < 70 * ScoreDen
            /\ Before(SleepTip, ExerciseTip)
            /\ Before(SleepTip, WaterTip)
            /\ Before(ExerciseTip, WaterTip)
            /\ Cardinality({ i \in 1..Len(r) : r[i] \in Remarks }) = 1
            /\ r[Len(r)] = (IF w >= 80 THEN ExcellentRemark
                            ELSE IF w >= 60 THEN RightTrackRemark
                            ELSE GradualRemark)

\* With one sub-score just below 70 and one at 70, only the first got its tip.
C10_Witness ==
    /\ Returned("generate_wellness_recommendations")
    /\ call.args.wellness_data.sleep_score = 70 * ScoreDen - 1
    /\ call.args.wellness_data.exercise_score = 70 * ScoreDen
    /\ call.args.wellness_data.water_score = 100 * ScoreDen
    /\ call.args.wellness_score = 79
    /\ call.result = << SleepTip, RightTrackRemark >>

\* C11: the response of a successful meal-plan request carries the nutrition
\* score, the ingredients used in the order the user gave them, and the
\* estimated cost, which is the number of ingredients times 50.
C11_MealPlanResponseFields ==
    Succeeded("generate_meal_plan") =>
        LET ingredient_list == SplitList(request.ingredients)
        IN  /\ response.nutrition_score =
                  calculate_nutrition_score(ingredient_list,
                                            request.dietary_restrictions)
            /\ response.ingredients_used = ingredient_list
            /\ "estimated_cost" \in DOMAIN response
            /\ response.estimated_cost =
                  avg_cost_per_ingredient * Len(ingredient_list)

\* C12: a history request for a category outside {education, health,
\* nutrition} is answered with the 'Invalid category' error and sends no
\* statement to the store; a request for a category of the set never gets
\* that error.
C12_InvalidCategory ==
    (request.op = "get_user_history" /\ response # NoResponse) =>
        IF request.category \in { "education", "health", "nutrition" }
        THEN "error" \in DOMAIN response => response.error # "Invalid category"
        ELSE /\ response.status = 400
             /\ response.error = "Invalid category"
             /\ db_log = << >>

\* The request in `request` is one of the three with a required text field, and
\* the field is missing or empty.
RequiredFieldMissing ==
    \/ /\ request.op = "analyze_mental_health"
       /\ ~request.has_mood_text \/ request.mood_text = << >>
    \/ /\ request.op = "generate_meal_plan"
       /\ ~request.has_ingredients \/ request.ingredients = << >>
    \/ /\ request.op = "reduce_food_waste"
       /\ ~request.has_expiring_items \/ request.expiring_items = << >>

\* C13: a request whose required field (mood text, ingredients, expiring
\* items) is missing or empty is answered with an input error, leaves every
\* table unchanged, sends nothing to the store and calls no external provider.
C13_MissingFieldRejected ==
    [][ (RequiredFieldMissing /\ response = NoResponse /\ response' # NoResponse)
          => /\ response'.status = 400
             /\ response'.error \in { "Mood text is required",
                                      "Ingredients are required",
                                      "Expiring items are required" }
             /\ UNCHANGED tables
             /\ db_log' = << >>
             /\ external' = << >> ]_vars

\* With a row in the store, a meal plan request with an empty ingredients
\* text was refused.
C13_Witness ==
    /\ response.op = "generate_meal_plan"
    /\ response.status = 400
    /\ request.has_ingredients
    /\ request.ingredients = << >>
    /\ TotalRows > 0

\* The table a storing handler inserts into and the field of its response
\* that carries the new row's id.
StoringOps ==
    [ analyze_mental_health |->
          [table |-> "mental_health_assessments", id |-> "assessment_id"],
      track_wellness |-> [table |-> "health_tracking", id |-> "tracking_id"],
      generate_meal_plan |-> [table |-> "meal_plans", id |-> "plan_id"],
      reduce_food_waste |->
          [table |-> "food_waste_reduction", id |-> "reduction_id"] ]

\* C14: analyze_mental_health, track_wellness, generate_meal_plan and
\* reduce_food_waste never swallow a failure of the store.  A success response
\* comes only after the insert and the commit, and the row is then in the
\* table; when the connection cannot be made or the insert fails the response
\* is an error and the store holds no row of the request.
C14_StoreFailureNotSwallowed ==
    (request.op \in DOMAIN StoringOps /\ response # NoResponse) =>
        LET t == StoringOps[request.op].table
            rows == Committed[t]
            failed == \E i \in 1..Len(db_log) : ~db_log[i].ok
        IN  /\ response.status = 200 =>
                  /\ db_log = << Connect(TRUE), Statement("insert", t, TRUE),
                                 Statement("commit", "", TRUE) >>
                  /\ Len(rows) = 1
                  /\ rows[1].user_id = request.user
                  /\ rows[1].id = response[StoringOps[request.op].id]
            /\ failed => response.status = 500 /\ TotalRows = 0
            /\ response.status # 200 => TotalRows = 0

\* An insert of track_wellness failed after the connection was made: the
\* answer is the handler's error and the table is empty.
C14_Witness ==
    /\ request.op = "track_wellness"
    /\ db_log = << Connect(TRUE), Statement("insert", "health_tracking", FALSE) >>
    /\ response = Error(500, "Failed to track wellness")
    /\ health_tracking = << >>

\* C15: a failure or timeout of the advice provider never fails the request:
\* get_random_advice then returns a fixed fallback string, and a successful
\* analyze_mental_health response holds the fixed recommendation list of the
\* classified label followed by exactly one advice string, its last element.
C15_AdviceFallback ==
    (request.op = "analyze_mental_health" /\ response # NoResponse
       /\ response.status # 400) =>
        LET outcome == external[1].outcome
            fallbacks == { "Stay positive and take things one day at a time.",
                           "Remember to practice self-care and mindfulness." }
            stored == \A i \in 1..Len(db_log) : db_log[i].ok
            r == response.recommendations
            fixed == CASE response.sentiment = "POSITIVE" -> recommendations_POSITIVE
                       [] response.sentiment = "NEGATIVE" -> recommendations_NEGATIVE
                       [] OTHER -> recommendations_NEUTRAL
        IN  /\ Len(external) = 1
            /\ external[1].provider = "advice"
            /\ stored => response.status = 200
            /\ response.status = 200 =>
                  /\ Len(r) = Len(fixed) + 1
                  /\ SubSeq(r, 1, Len(fixed)) = fixed
                  /\ outcome = "ok" => r[Len(r)] = AdviceSlip
                  /\ outcome # "ok" => r[Len(r)] \in fallbacks

\* The advice call raised and the request succeeded with the fallback last.
C15_Witness ==
    /\ Succeeded("analyze_mental_health")
    /\ external = << Called("advice", "error") >>
    /\ response.sentiment = "NEGATIVE"
    /\ Len(response.recommendations) = Len(recommendations_NEGATIVE) + 1
    /\ response.recommendations[Len(response.recommendations)] =
          "Remember to practice self-care and mindfulness."

\* What user_dashboard would report to user u from the committed tables, for
\* each way the store may order rows of the same second.
DashboardOf(u) ==
    [ ties \in TieOrders |->
        dashboard_data(u, users[u], dashboard_queries(u, Committed, ties),
                       Committed) ]

\* The four activity counts of a served dashboard are the numbers of inserts
\* the user's own requests were answered 200 for.
C16_CountsAreOwnSuccesses ==
    (dashboard.pc = "done" /\ dashboard.response.status = 200) =>
        LET c == dashboard.response.dashboard.activity_counts
            own == served[dashboard.user]
        IN  /\ c.learning_activities = own["learning_activities"]
            /\ c.health_tracking = own["health_tracking"]
            /\ c.meal_plans = own["meal_plans"]
            /\ c.waste_reduction = own["food_waste_reduction"]

\* Answering a request of one user leaves what every other user's dashboard
\* reports as it was.
C16_OthersLeaveItAlone ==
    (request # NoRequest /\ response = NoResponse /\ response' # NoResponse) =>
        \A u \in Users \ { request.user } : DashboardOf(u)' = DashboardOf(u)

\* C16: after any sequence of requests by any users, the four activity counts
\* of user u's dashboard equal the numbers of records committed so far by u's
\* own successful requests into the corresponding tables, and requests of
\* other users never change what u's dashboard reports.
C16_DashboardCountsOwnRecords ==
    /\ []C16_CountsAreOwnSuccesses
    /\ [][C16_OthersLeaveItAlone]_vars

\* User 1 got a dashboard counting their one learning activity while user 2
\* had stored one too.
C16_Witness ==
    /\ dashboard.pc = "done"
    /\ dashboard.user = 1
    /\ dashboard.response.status = 200
    /\ dashboard.response.dashboard.activity_counts.learning_activities = 1
    /\ served[2]["learning_activities"] = 1
    /\ Len(learning_activities) = 2

\* list holds the most recent of rows, at most 5 of them, latest first: it
\* has min(5, number of rows) entries, each the Entry of a row; their dates
\* do not increase; no second is represented by more entries than it has
\* rows; and every row of a second later than the last entry's is among them.
MostRecentFirst(list, rows, Entry(_)) ==
    LET seconds == { rows[j].created_at : j \in 1..Len(rows) }
        listed(d) == Cardinality({ i \in 1..Len(list) : list[i].date = d })
        created(d) == Cardinality({ j \in 1..Len(rows) : rows[j].created_at = d })
    IN  /\ Len(list) <= 5
        /\ Len(list) = Min(5, Len(rows))
        /\ \A i \in 1..(Len(list) - 1) : list[i].date >= list[i + 1].date
        /\ \A i \in 1..Len(list) : \E j \in 1..Len(rows) : Entry(rows[j]) = list[i]
        /\ \A i \in 1..Len(list) : list[i].date \in seconds
        /\ \A d \in seconds :
              /\ listed(d) <= created(d)
              /\ (Len(list) > 0 /\ d > list[Len(list)].date) =>
                    listed(d) = created(d)

C18_EmptyHistoryProgress ==
    dashboard.pc = "done" =>
        LET u == dashboard.user
            answered == \A i \in 1..Len(dashboard.log) : dashboard.log[i].ok
        IN  /\ answered => dashboard.response.status = 200
            /\ dashboard.response.status = 200 =>
                  LET p == dashboard.response.dashboard.sdg_progress
                      none(t) == WhereUser(dashboard.view[t], u) = << >>
                  IN  /\ none("learning_activities") =>
                            p.education = [ total_activities |-> 0,
                                            average_progress |-> 0,
                                            level |-> "Beginner" ]
                      /\ none("health_tracking") =>
                            p.health = [ tracking_sessions |-> 0,
                                         average_score |-> 0,
                                         status |-> "Needs Improvement" ]
                      /\ none("meal_plans") =>
                            /\ p.nutrition.meal_plans = 0
                            /\ p.nutrition.average_nutrition_score = 0
                      /\ none("food_waste_reduction") =>
                            /\ p.nutrition.waste_reduction_actions = 0
                            /\ p.nutrition.average_impact_score = 0

\* A user without any record got a dashboard from a store that holds other
\* users' records in all four tables.
C18_Witness ==
    /\ dashboard.pc = "done"
    /\ dashboard.response.status = 200
    /\ \A t \in { "learning_activities", "health_tracking", "meal_plans",
                  "food_waste_reduction" } :
          /\ dashboard.view[t] # << >>
          /\ WhereUser(dashboard.view[t], dashboard.user) = << >>
    /\ dashboard.response.dashboard.sdg_progress.education.level = "Beginner"
    /\ dashboard.response.dashboard.sdg_progress.nutrition =
          [ meal_plans |-> 0, waste_reduction_actions |-> 0,
            average_nutrition_score |-> 0, average_impact_score |-> 0 ]

\* C19: within one dashboard response the figures derived from the same table
\* agree, also when requests of the same user insert records while the
\* dashboard request is running: the learning_activities count equals
\* education.total_activities, the meal_plans count nutrition.meal_plans, the
\* waste_reduction count nutrition.waste_reduction_actions, and the top-level
\* wellness_score equals health.average_score.
C19_DashboardFiguresAgree ==
    (dashboard.pc = "done" /\ dashboard.response.status = 200) =>
        LET d == dashboard.response.dashboard
        IN  /\ d.activity_counts.learning_activities =
                  d.sdg_progress.education.total_activities
            /\ d.activity_counts.meal_plans = d.sdg_progress.nutrition.meal_plans
            /\ d.activity_counts.waste_reduction =
                  d.sdg_progress.nutrition.waste_reduction_actions
            /\ d.wellness_score = d.sdg_progress.health.average_score

\* The dashboard's user stored a wellness row after the dashboard's first
\* SELECT and before its response, which reports the figures without it.
C19_Witness ==
    /\ dashboard.pc = "done"
    /\ dashboard.response.status = 200
    /\ Succeeded("track_wellness")
    /\ request.user = dashboard.user
    /\ Len(health_tracking) = Len(dashboard.view.health_tracking) + 1
    /\ dashboard.response.dashboard.activity_counts.health_tracking =
          Len(WhereUser(dashboard.view.health_tracking, dashboard.user))
    /\ dashboard.response.dashboard.activity_counts.health_tracking > 0

\* C20: the status that calculate_health_progress reports is the label
\* determine_health_status gives to the average_score of the same result (the
\* average rounded to 2 decimals): for no stored history are the reported
\* average and the reported status on different sides of 80, 60 or 40.
C20_StatusMatchesReportedAverage ==
    Returned("calculate_health_progress") =>
        call.result.status = determine_health_status(call.result.average_score)

EducationLevels == << "Beginner", "Explorer", "Learner", "Scholar", "Expert" >>

\* The place of a level in Beginner < Explorer < Learner < Scholar < Expert.
LevelRank(level) ==
    CHOOSE i \in 1..Len(EducationLevels) : EducationLevels[i] = level

\* The dashboard answered to user u shows education level l.
ShowsLevel(u, l) ==
    /\ dashboard.pc = "done"
    /\ dashboard.user = u
    /\ dashboard.response.status = 200
    /\ dashboard.response.dashboard.sdg_progress.education.level = l

\* Once a dashboard of u has shown level l, no dashboard of u shows a lower one.
C21_NeverLower ==
    \A u \in Users : \A l \in Range(EducationLevels) :
        [](ShowsLevel(u, l) =>
              [](\A m \in Range(EducationLevels) :
                    ShowsLevel(u, m) => LevelRank(m) >= LevelRank(l)))

\* Every step leaves the rows of learning_activities in place and at most
\* adds rows after them.
C21_OnlyAdded ==
    /\ Len(learning_activities') >= Len(learning_activities)
    /\ SubSeq(learning_activities', 1, Len(learning_activities))
          = learning_activities

\* A dashboard request of u that arrives after 20 of u's learning-path
\* requests were answered 200 is answered with Expert, and so is every
\* dashboard of u after it.
C21_ExpertFrom20 ==
    \A u \in Users :
        []((/\ served[u]["learning_activities"] >= 20
            /\ dashboard.pc = "start"
            /\ dashboard.user = u)
           => [](\A m \in Range(EducationLevels) :
                    ShowsLevel(u, m) => m = "Expert"))

\* C21: over any sequence of operations the education level shown in a
\* user's dashboard never moves to a lower level (Beginner < Explorer <
\* Learner < Scholar < Expert): learning-activity records are only ever
\* added, and once 20 of the user's learning-path requests have succeeded
\* every later dashboard reports Expert.
C21_LevelNeverLowers ==
    /\ C21_NeverLower
    /\ [][C21_OnlyAdded]_vars
    /\ C21_ExpertFrom20

\* The learner's dashboard shows Expert after their 21 learning paths, with
\* the other user's three activities in the same table.
C21_Witness ==
    /\ ShowsLevel(1, "Expert")
    /\ served[1]["learning_activities"] > 20
    /\ Len(learning_activities) > served[1]["learning_activities"]
    /\ dashboard.response.dashboard.sdg_progress.education.total_activities
          = served[1]["learning_activities"]

\* The list written in the source for a label, its length beside it.
AuthoredList(label) ==
    CASE label = "POSITIVE" ->
            [items |-> recommendations_POSITIVE, length |-> 3]
      [] label = "NEGATIVE" ->
            [items |-> recommendations_NEGATIVE, length |-> 4]
      [] OTHER ->
            [items |-> recommendations_NEUTRAL, length |-> 4]

\* The stored analyses of a label, each holding the list the handler
\* obtained for it with the advice appended.
AnalysesOf(label) ==
    SelectSeq(mental_health_assessments, LAMBDA r : r.sentiment = label)

\* C22: generate_mental_health_recommendations has no state that drifts
\* between calls: after analyze_mental_health has appended an advice string
\* to the list it obtained, any later call with the same label still returns
\* exactly the authored list (3, 4 or 4 items), so the list length does not
\* grow with the number of requests served.
C22_NoDriftBetweenCalls ==
    /\ Returned("generate_mental_health_recommendations") =>
          LET authored == AuthoredList(call.args.sentiment)
          IN  /\ call.result = authored.items
              /\ Len(call.result) = authored.length
    /\ Succeeded("analyze_mental_health") =>
          LET authored == AuthoredList(response.sentiment)
              list == response.recommendations
          IN  /\ Len(list) = authored.length + 1
              /\ SubSeq(list, 1, authored.length) = authored.items
    /\ \A i \in 1..Len(mental_health_assessments) :
          LET row == mental_health_assessments[i]
          IN  Len(row.recommendations) = AuthoredList(row.sentiment).length + 1

\* The generator was called for a label after two analyses of that label
\* had each appended an advice to the list they obtained.
C22_Witness ==
    /\ Returned("generate_mental_health_recommendations")
    /\ Len(AnalysesOf(call.args.sentiment)) >= 2
    /\ \A i \in 1..Len(AnalysesOf(call.args.sentiment)) :
          Len(AnalysesOf(call.args.sentiment)[i].recommendations)
              = Len(call.result) + 1
    /\ Succeeded("analyze_mental_health")
    /\ response.sentiment = call.args.sentiment

\* The places of a text where a word can be written without touching a word
\* that is there: its start, its end and either side of a space.
WordBoundaries(text) ==
    { i \in 0..Len(text) :
        \/ i = 0
        \/ i = Len(text)
        \/ text[i] = " "
        \/ text[i + 1] = " " }

\* text with k more copies of word w written at place i, as words of their own.
Repeated(text, w, i, k) ==
    SubSeq(text, 1, i) \o Concat([j \in 1..k |-> <<" ">> \o w]) \o <<" ">>
        \o SubSeq(text, i + 1, Len(text))

\* C23: in analyze_sentiment each keyword of the positive and of the negative
\* set contributes at most 1 to its hit count no matter how many times it
\* occurs in the text, so 0 <= P <= 10 and 0 <= N <= 10, and repeating a
\* keyword that is already present in a text (writing it again as a word of
\* its own) never changes the returned label or confidence.
C23_KeywordCountsOnce ==
    Returned("analyze_sentiment") =>
        LET text == call.args.text
            keywords == Range(positive_words) \cup Range(negative_words)
            present == { w \in keywords : Contains(Lower(text), w) }
        IN  /\ \A w \in Range(positive_words) :
                  KeywordHits(<< w >>, Lower(text)) \in { 0, 1 }
            /\ \A w \in Range(negative_words) :
                  KeywordHits(<< w >>, Lower(text)) \in { 0, 1 }
            /\ positive_count(text) \in 0..10
            /\ negative_count(text) \in 0..10
            /\ \A w \in present, i \in WordBoundaries(text), k \in 1..MaxRepeats :
                  /\ positive_count(Repeated(text, w, i, k)) = positive_count(text)
                  /\ negative_count(Repeated(text, w, i, k)) = negative_count(text)
                  /\ analyze_sentiment(Repeated(text, w, i, k)) = call.result

\* A text with one negative and one positive keyword was classified as a
\* tie, as is the text with the positive keyword written twice more.
C23_Witness ==
    /\ Returned("analyze_sentiment")
    /\ call.args.text = <<"b","a","d","g","o","o","d">>
    /\ call.result = [sentiment |-> "NEUTRAL", confidence |-> 60]
    /\ Repeated(call.args.text, <<"g","o","o","d">>, 7, 2)
          = <<"b","a","d","g","o","o","d"," ","g","o","o","d"," ","g","o","o","d"," ">>
    /\ analyze_sentiment(Repeated(call.args.text, <<"g","o","o","d">>, 7, 2))
          = call.result

\* The (label, confidence) pairs analyze_sentiment returns for the mood texts
\* of one fragment: all three of its return statements are among them.
ProducedPairs == { analyze_sentiment(t) : t \in MoodTexts }

\* The place of a label in NEGATIVE < NEUTRAL < POSITIVE.
MoodRank(sentiment) ==
    CASE sentiment = "NEGATIVE" -> 1
      [] sentiment = "NEUTRAL"  -> 2
      [] sentiment = "POSITIVE" -> 3

\* C24: for every confidence in [0,1] and every label (known or unknown, the
\* latter using base 60) calculate_mood_score lies within [25,95], so neither
\* clamp bound (10 or 100) is ever the returned value; for the (label,
\* confidence) pairs that analyze_sentiment can produce, the mood score of
\* POSITIVE is strictly greater than that of NEUTRAL, which is strictly
\* greater than that of NEGATIVE.
C24_MoodScoreAwayFromClamps ==
    Returned("calculate_mood_score") =>
        LET sentiment == call.args.sentiment
            confidence == call.args.confidence
            produced == [sentiment |-> sentiment, confidence |-> confidence]
        IN  /\ confidence \in 0..ConfDen =>
                  /\ call.result >= 25 * ConfDen
                  /\ call.result <= 95 * ConfDen
                  /\ call.result # 10 * ConfDen
                  /\ call.result # 100 * ConfDen
                  /\ sentiment \notin { "POSITIVE", "NEUTRAL", "NEGATIVE" } =>
                        call.result = calculate_mood_score("NEUTRAL", confidence)
            /\ produced \in ProducedPairs =>
                  \A other \in ProducedPairs :
                      LET score == calculate_mood_score(other.sentiment,
                                                        other.confidence)
                      IN  /\ MoodRank(sentiment) > MoodRank(other.sentiment)
                             => call.result > score
                          /\ MoodRank(sentiment) < MoodRank(other.sentiment)
                             => call.result < score

\* The score of the label with the highest base at confidence 1: 95, the
\* largest score a confidence within [0,1] gives; and all three labels are
\* among the pairs analyze_sentiment produces.
C24_Witness ==
    /\ Returned("calculate_mood_score")
    /\ call.args.sentiment = "POSITIVE"
    /\ call.args.confidence = ConfDen
    /\ call.result = 95 * ConfDen
    /\ { p.sentiment : p \in ProducedPairs } = { "POSITIVE", "NEUTRAL", "NEGATIVE" }

====
